---- MODULE Spec2Model ----
(***************************************************************************)
(* Writing Helper (ravigadgil/writing-helper): the lint pipeline of the    *)
(* service worker (engine lints, suggestion post-processing, pattern       *)
(* rules, clause detector, asynchronous AI merge) and the content-side     *)
(* handlers that keep per-element lints and apply fixes to the text.       *)
(*                                                                         *)
(* Texts are sequences of one-character strings.  Offsets are 0-based and  *)
(* spans half-open, as in the JavaScript source.                           *)
(***************************************************************************)
EXTENDS Integers, Sequences, FiniteSets, Bags, TLC

\* ------------------------------------------------------------------------
\* Characters and JavaScript string primitives
\* ------------------------------------------------------------------------

UPPER == <<"A", "B", "C", "D", "E", "F", "G", "H", "I", "J", "K", "L", "M",
           "N", "O", "P", "Q", "R", "S", "T", "U", "V", "W", "X", "Y", "Z">>

LOWER == <<"a", "b", "c", "d", "e", "f", "g", "h", "i", "j", "k", "l", "m",
           "n", "o", "p", "q", "r", "s", "t", "u", "v", "w", "x", "y", "z">>

DIGITS == {"0", "1", "2", "3", "4", "5", "6", "7", "8", "9"}

IsUpper(c) == \E i \in 1..26 : UPPER[i] = c

IsLower(c) == \E i \in 1..26 : LOWER[i] = c

IsLetter(c) == IsUpper(c) \/ IsLower(c)

\* \w of a JavaScript regular expression
IsWordChar(c) == IsLetter(c) \/ c \in DIGITS \/ c = "_"

\* \s of a JavaScript regular expression (the characters the texts use)
IsSpace(c) == c \in {" ", "\n", "\t"}

LowerChar(c) == IF IsUpper(c) THEN LOWER[CHOOSE i \in 1..26 : UPPER[i] = c] ELSE c

UpperChar(c) == IF IsLower(c) THEN UPPER[CHOOSE i \in 1..26 : LOWER[i] = c] ELSE c

toLowerCase(s) == [i \in 1..Len(s) |-> LowerChar(s[i])]

toUpperCase(s) == [i \in 1..Len(s) |-> UpperChar(s[i])]

Min(a, b) == IF a < b THEN a ELSE b

Max(a, b) == IF a > b THEN a ELSE b

Clamp(i, n) == Max(0, Min(i, n))

\* String.prototype.substring(a, b): both ends clamped to [0, length],
\* swapped when a > b.
substring(s, a, b) ==
  LET x == Clamp(a, Len(s))
      y == Clamp(b, Len(s))
  IN  SubSeq(s, Min(x, y) + 1, Max(x, y))

\* String.prototype.slice(a, b) for non-negative arguments: clamped, empty
\* when a >= b.
slice(s, a, b) == SubSeq(s, Clamp(a, Len(s)) + 1, Clamp(b, Len(s)))

\* whether the word w occurs in s at 0-based offset p (ci: ignoring case)
OccursAt(s, p, w, ci) ==
  /\ p >= 0
  /\ p + Len(w) <= Len(s)
  /\ \A k \in 1..Len(w) :
        IF ci THEN LowerChar(s[p + k]) = LowerChar(w[k]) ELSE s[p + k] = w[k]

\* String.prototype.indexOf(w, from)
indexOf(s, w, from) ==
  LET f == Clamp(from, Len(s))
      hits == {p \in f..Len(s) : OccursAt(s, p, w, FALSE)}
  IN  IF hits = {} THEN -1 ELSE CHOOSE p \in hits : \A q \in hits : p <= q

\* String.prototype.lastIndexOf(w, from)
lastIndexOf(s, w, from) ==
  LET hits == {p \in 0..Clamp(from, Len(s)) : OccursAt(s, p, w, FALSE)}
  IN  IF hits = {} THEN -1 ELSE CHOOSE p \in hits : \A q \in hits : p >= q

includes(s, w) == indexOf(s, w, 0) # -1

\* ------------------------------------------------------------------------
\* Regular-expression fragments used by the rule table
\* ------------------------------------------------------------------------

\* \b at offset p: exactly one side is a word character
WordBoundaryAt(s, p) ==
  LET before == p >= 1 /\ p <= Len(s) /\ IsWordChar(s[p])
      after  == p >= 0 /\ p < Len(s) /\ IsWordChar(s[p + 1])
  IN  before # after

\* offset after the greedy \s+ that starts at p, or -1 when no whitespace
RECURSIVE SkipSpaces(_, _)
SkipSpaces(s, p) ==
  IF p < Len(s) /\ IsSpace(s[p + 1]) THEN SkipSpaces(s, p + 1) ELSE p

SpacesEnd(s, p) == IF SkipSpaces(s, p) > p THEN SkipSpaces(s, p) ELSE -1

\* offset after the greedy [a-z]+ (flag i) that starts at p, or -1
RECURSIVE SkipLetters(_, _)
SkipLetters(s, p) ==
  IF p < Len(s) /\ IsLetter(s[p + 1]) THEN SkipLetters(s, p + 1) ELSE p

LettersEnd(s, p) == IF SkipLetters(s, p) > p THEN SkipLetters(s, p) ELSE -1

NoMatch == [ok |-> FALSE, index |-> 0, end |-> 0, caps |-> <<>>]

\* (w1|w2|...) \s+ (v1|...) ... \b from offset p: the groups are matched
\* left to right, the alternatives of a group are tried in their written
\* order, and a later alternative is tried when the rest fails.  caps holds
\* the [start, end) of every group matched so far.
RECURSIVE MatchGroups(_, _, _, _, _, _)
MatchGroups(s, p, groups, k, a, caps) ==
  IF a > Len(groups[k]) THEN NoMatch
  ELSE LET w == groups[k][a]
           q == p + Len(w)
           here == Append(caps, <<p, q>>)
           rest == IF ~OccursAt(s, p, w, TRUE) THEN NoMatch
                   ELSE IF k = Len(groups)
                        THEN IF WordBoundaryAt(s, q)
                             THEN [ok |-> TRUE, index |-> 0, end |-> q, caps |-> here]
                             ELSE NoMatch
                        ELSE IF SpacesEnd(s, q) = -1 THEN NoMatch
                             ELSE MatchGroups(s, SpacesEnd(s, q), groups, k + 1, 1, here)
       IN  IF rest.ok THEN rest ELSE MatchGroups(s, p, groups, k, a + 1, caps)

\* ------------------------------------------------------------------------
\* custom-rules.js: the rule table
\* ------------------------------------------------------------------------

w_he == <<"h", "e">>
w_she == <<"s", "h", "e">>
w_it == <<"i", "t">>
w_dont == <<"d", "o", "n", "'", "t">>
w_dnt == <<"d", "o", "n", "t">>
w_keep == <<"k", "e", "e", "p">>
w_eye == <<"e", "y", "e">>
w_I == <<"I">>
w_i == <<"i">>
w_a == <<"a">>
w_an == <<"a", "n">>
w_the == <<"t", "h", "e">>
w_am == <<"a", "m">>
w_is == <<"i", "s">>
w_do == <<"d", "o">>
w_go == <<"g", "o">>
w_like == <<"l", "i", "k", "e">>
w_stop == <<"s", "t", "o", "p">>
w_day == <<"d", "a", "y">>
w_now == <<"n", "o", "w">>
s_doesnt == <<" ", "d", "o", "e", "s", "n", "'", "t">>
s_keepAnEye == <<"k", "e", "e", "p", " ", "a", "n", " ", "e", "y", "e">>

\* RULES, restricted to the entries that can match the texts of this model
\* (every other enabled entry of the table matches none of them), in table
\* order.  shape names the form of the entry's regular expression:
\*   "words"  wordBoundary("(..|..)\\s+(..|..)"), flags gi
\*   "sentI"  /(?:^|[.!?]\s+)(i)\s/gm
\*   "eol"    /[a-zA-Z]{2,}$/gm
\* throws marks an entry whose suggest callback throws when it is called.
\* lastIndex is the lastIndex of the entry's own expression object
\* (rule.regex), 0 when the module is loaded.
RuleKeepEye ==
  [name |-> "keepEye", enabled |-> TRUE, match |-> 0, shape |-> "words",
   groups |-> << <<w_keep>>, <<w_eye>> >>, throws |-> FALSE, lastIndex |-> 0]

RuleHeDont ==
  [name |-> "heDont", enabled |-> TRUE, match |-> 0, shape |-> "words",
   groups |-> << <<w_he, w_she, w_it>>, <<w_dont, w_dnt>> >>, throws |-> FALSE, lastIndex |-> 0]

RuleCapitalizeI ==
  [name |-> "capitalizeI", enabled |-> TRUE, match |-> 1, shape |-> "sentI",
   groups |-> <<>>, throws |-> FALSE, lastIndex |-> 0]

RuleMissingPunctuation ==
  [name |-> "missingPunctuation", enabled |-> FALSE, match |-> 0, shape |-> "eol",
   groups |-> <<>>, throws |-> FALSE, lastIndex |-> 0]

RULES == <<RuleKeepEye, RuleHeDont, RuleCapitalizeI, RuleMissingPunctuation>>

\* An entry added to the table as README "Adding Custom Rules" describes
\* (regex wordBoundary("like\\s+it")), whose suggest callback throws when it
\* is called.
RuleMalformed ==
  [name |-> "malformed", enabled |-> TRUE, match |-> 0, shape |-> "words",
   groups |-> << <<w_like>>, <<w_it>> >>, throws |-> TRUE, lastIndex |-> 0]

\* the table after that entry has been added behind "he don't"
RULES_EDITED ==
  <<RuleKeepEye, RuleHeDont, RuleMalformed, RuleCapitalizeI, RuleMissingPunctuation>>

\* An entry added to the table the same way to flag spaces at the end of a
\* line, regex / *$/gm: its expression matches the empty string at the end
\* of a line that has no such spaces.
RuleTrailingSpaces ==
  [name |-> "trailingSpaces", enabled |-> TRUE, match |-> 0, shape |-> "eolSpaces",
   groups |-> <<>>, throws |-> FALSE, lastIndex |-> 0]

\* the table after that entry has been added at its end
RULES_SPACES == Append(RULES, RuleTrailingSpaces)

\* the end of the run of " " that starts at offset p
RECURSIVE SkipBlanks(_, _)
SkipBlanks(s, p) == IF p < Len(s) /\ s[p + 1] = " " THEN SkipBlanks(s, p + 1) ELSE p

\* one attempt of the rule's expression at offset p
MatchAt(rule, s, p) ==
  CASE rule.shape = "words" ->
         IF ~WordBoundaryAt(s, p) THEN NoMatch
         ELSE [MatchGroups(s, p, rule.groups, 1, 1, <<>>) EXCEPT !.index = p]
    [] rule.shape = "sentI" ->
         LET lineStart == p = 0 \/ (p <= Len(s) /\ s[p] = "\n")
             q == IF p < Len(s) /\ s[p + 1] \in {".", "!", "?"}
                  THEN SpacesEnd(s, p + 1) ELSE -1
             iAt(x) == x + 1 < Len(s) /\ s[x + 1] = "i" /\ IsSpace(s[x + 2])
         IN  IF lineStart /\ iAt(p)
             THEN [ok |-> TRUE, index |-> p, end |-> p + 2, caps |-> << <<p, p + 1>> >>]
             ELSE IF q # -1 /\ iAt(q)
                  THEN [ok |-> TRUE, index |-> p, end |-> q + 2, caps |-> << <<q, q + 1>> >>]
                  ELSE NoMatch
    [] rule.shape = "eolSpaces" ->
         LET q == SkipBlanks(s, p)
         IN  IF q = Len(s) \/ s[q + 1] = "\n"
             THEN [ok |-> TRUE, index |-> p, end |-> q, caps |-> <<>>]
             ELSE NoMatch
    [] rule.shape = "eol" ->
         LET q == SkipLetters(s, p)
         IN  IF q - p >= 2 /\ (q = Len(s) \/ s[q + 1] = "\n")
             THEN [ok |-> TRUE, index |-> p, end |-> q, caps |-> <<>>]
             ELSE NoMatch
    [] OTHER -> NoMatch

\* regex.exec(text) of a global expression whose lastIndex is from: the
\* leftmost match that starts at or after from.
Exec(rule, s, from) ==
  LET starts == {p \in from..Len(s) : MatchAt(rule, s, p).ok}
  IN  IF starts = {} THEN NoMatch
      ELSE MatchAt(rule, s, CHOOSE p \in starts : \A q \in starts : p <= q)

\* the text of capture group g of match m
Capture(s, m, g) == slice(s, m.caps[g][1], m.caps[g][2])

\* rule.suggest(match)
Suggest(rule, s, m) ==
  CASE rule.name = "keepEye" -> <<s_keepAnEye>>
    [] rule.name = "heDont" -> <<Capture(s, m, 1) \o s_doesnt>>
    [] rule.name = "capitalizeI" -> <<w_I>>
    [] rule.name = "missingPunctuation" -> <<slice(s, m.index, m.end) \o <<".">> >>
    [] OTHER -> <<>>

\* rule.kind
RuleKind(rule) ==
  CASE rule.name = "heDont" -> "Agreement"
    [] rule.name = "capitalizeI" -> "Capitalization"
    [] rule.name = "missingPunctuation" -> "Style"
    [] OTHER -> "Grammar"

\* the span of a match: the whole match, or the first occurrence of the
\* captured text inside the whole match
RuleSpan(rule, s, m) ==
  LET fullMatch == slice(s, m.index, m.end)
      groupIdx == rule.match
      captured == IF groupIdx = 0 THEN fullMatch ELSE Capture(s, m, groupIdx)
      matchedText == IF captured = <<>> THEN fullMatch ELSE captured
      groupStart == indexOf(fullMatch, matchedText, 0)
      start == IF groupIdx = 0 THEN m.index
               ELSE m.index + (IF groupStart >= 0 THEN groupStart ELSE 0)
  IN  [start |-> start,
       end |-> IF groupIdx = 0 THEN m.index + Len(fullMatch) ELSE start + Len(matchedText)]

\* the overlap test as a comparison of exact spans
overlapsExactSpan(occupied, start, end) ==
  \E i \in 1..Len(occupied) : start = occupied[i][1] /\ end = occupied[i][2]

\* overlaps(start, end) against the occupied list of one pass
overlaps(occupied, start, end) ==
  \E i \in 1..Len(occupied) : start < occupied[i][2] /\ end > occupied[i][1]

\* a lint whose problemText is text.slice(start)
LintSlicedToEnd(start, end, s, suggestions, kind, source) ==
  [span |-> [start |-> start, end |-> end],
   problemText |-> slice(s, start, Len(s)),
   suggestions |-> suggestions,
   lintKind |-> kind,
   source |-> source]

\* the lint object pushed onto results: problemText is text.slice(start, end)
Lint(start, end, s, suggestions, kind, source) ==
  [span |-> [start |-> start, end |-> end],
   problemText |-> slice(s, start, end),
   suggestions |-> suggestions,
   lintKind |-> kind,
   source |-> source]

\* ------------------------------------------------------------------------
\* custom-rules.js: runCustomRules and detectRunOnClauses
\* ------------------------------------------------------------------------

\* The state of one pass: the occupied list, the lints pushed so far, how
\* the pass ended when it did not return (a callback threw, or a match
\* loop whose expression matched the empty string never advanced), the
\* lastIndex the matcher of the loop that ran last was left with, and the
\* rule table as the pass leaves it.
Pass(occupied, results) ==
  [occupied |-> occupied, results |-> results, threw |-> FALSE, hung |-> FALSE,
   left |-> 0, rules |-> <<>>]

\* the matcher of a rule taken to be the entry's own expression object:
\* it starts where that object was left, and what it is left with stays in
\* the table
sharedRegExp(rule) == [lastIndex |-> rule.lastIndex, shared |-> TRUE]

\* new RegExp(rule.regex.source, rule.regex.flags): a matcher of its own,
\* whose lastIndex is 0
newRegExp(rule) == [lastIndex |-> 0, shared |-> FALSE]

\* if ((match = regex.exec(text)) !== null) { ... }: the first match only
ScanRuleFirstMatch(rule, s, lastIndex, pass) ==
  LET iteration(m, acc) ==
        LET sp == RuleSpan(rule, s, m)
        IN  IF ~m.ok THEN [acc EXCEPT !.left = 0]
            ELSE IF m.end = m.index THEN [acc EXCEPT !.hung = TRUE, !.left = m.end]
            ELSE IF overlaps(acc.occupied, sp.start, sp.end) THEN [acc EXCEPT !.left = m.end]
            ELSE IF rule.throws THEN [acc EXCEPT !.threw = TRUE, !.left = m.end]
            ELSE [acc EXCEPT
                    !.left = m.end,
                    !.results = Append(@, Lint(sp.start, sp.end, s, Suggest(rule, s, m),
                                               RuleKind(rule), "pattern")),
                    !.occupied = Append(@, <<sp.start, sp.end>>)]
  IN  CHOOSE r \in {iteration(m, acc) : m \in {Exec(rule, s, lastIndex)}, acc \in {pass}} : TRUE

\* while ((match = regex.exec(text)) !== null) { ... } of one rule
RECURSIVE ScanRule(_, _, _, _)
ScanRule(rule, s, lastIndex, pass) ==
  LET iteration(m, acc) ==
        LET sp == RuleSpan(rule, s, m)
        IN  IF ~m.ok THEN [acc EXCEPT !.left = 0]
            ELSE IF m.end = m.index THEN [acc EXCEPT !.hung = TRUE, !.left = m.end]
            ELSE IF overlaps(acc.occupied, sp.start, sp.end) THEN ScanRule(rule, s, m.end, acc)
            ELSE IF rule.throws THEN [acc EXCEPT !.threw = TRUE, !.left = m.end]
            ELSE ScanRule(rule, s, m.end,
                   [acc EXCEPT
                      !.results = Append(@, Lint(sp.start, sp.end, s, Suggest(rule, s, m),
                                                 RuleKind(rule), "pattern")),
                      !.occupied = Append(@, <<sp.start, sp.end>>)])
  IN  CHOOSE r \in {iteration(m, acc) : m \in {Exec(rule, s, lastIndex)}, acc \in {pass}} : TRUE

\* for (const rule of RULES) { if (rule.enabled === false) continue; ... }
RECURSIVE ScanRules(_, _, _, _)
ScanRules(rules, k, s, pass) ==
  LET scanned(regex, after) ==
        ScanRules(IF regex.shared THEN [rules EXCEPT ![k].lastIndex = after.left] ELSE rules,
                  k + 1, s, after)
      loop(regex, acc) ==
        CHOOSE r \in {scanned(regex, after) :
                        after \in {ScanRule(rules[k], s, regex.lastIndex, acc)}} : TRUE
      iteration(acc) ==
        IF k > Len(rules) \/ acc.threw \/ acc.hung THEN [acc EXCEPT !.rules = rules]
        ELSE IF rules[k].enabled = FALSE THEN ScanRules(rules, k + 1, s, acc)
        ELSE CHOOSE r \in {loop(regex, acc) : regex \in {newRegExp(rules[k])}} : TRUE
  IN  CHOOSE r \in {iteration(acc) : acc \in {pass}} : TRUE

\* subjects, verbs, imperativeVerbs, the object words of imperativePattern,
\* legitimatePreceding and clauseEndingWords, each restricted to the words
\* that occur in the texts of this model, in the order of the source.
subjects == <<w_I, w_he, w_she, w_it, w_dont>>

verbs == <<w_am, w_is, w_do, w_dont, w_go, w_like, w_keep, w_stop>>

imperativeVerbs == <<w_keep, w_go, w_stop>>

imperativeObjects == <<w_a, w_an, w_the, w_it>>

legitimatePreceding == {w_like, w_the, w_a, w_an, w_i, w_he, w_she, w_it}

clauseEndingWords == {w_day, w_now, w_it}

Punctuation == {",", ";", ".", "!", "?", ":"}

\* ([a-z]+)\s+(second)\s+(third)\b, flags gi, attempted at offset p
ClauseMatchAt(s, p, second, third) ==
  LET q == LettersEnd(s, p)
      r == IF q = -1 THEN -1 ELSE SpacesEnd(s, q)
  IN  IF r = -1 THEN NoMatch
      ELSE [MatchGroups(s, r, <<second, third>>, 1, 1, << <<p, q>> >>) EXCEPT !.index = p]

ClauseExec(s, from, second, third) ==
  LET starts == {p \in from..Len(s) : ClauseMatchAt(s, p, second, third).ok}
  IN  IF starts = {} THEN NoMatch
      ELSE ClauseMatchAt(s, CHOOSE p \in starts : \A q \in starts : p <= q, second, third)

charBefore(s, index) == IF index > 0 THEN <<s[index]>> ELSE <<>>

\* the word as it is
sameCase(w) == w

\* w.charAt(0).toUpperCase() + w.slice(1)
capitalize(w) == IF w = <<>> THEN w ELSE <<UpperChar(w[1])>> \o Tail(w)

\* the independent-clause scan of detectRunOnClauses
RECURSIVE ScanClauses(_, _, _)
ScanClauses(s, lastIndex, pass) ==
  LET iteration(m, acc) ==
    LET
      word == Capture(s, m, 1)
      subject == Capture(s, m, 2)
      verb == Capture(s, m, 3)
      cb == charBefore(s, m.index)
      sugg == << word \o <<",", " ">> \o subject \o <<" ">> \o verb,
                 word \o <<";", " ">> \o subject \o <<" ">> \o verb,
                 word \o <<".", " ">> \o capitalize(subject) \o <<" ">> \o verb >>
  IN  IF ~m.ok THEN acc
      ELSE IF toLowerCase(word) \in legitimatePreceding THEN ScanClauses(s, m.end, acc)
      ELSE IF cb # <<>> /\ cb[1] \in Punctuation THEN ScanClauses(s, m.end, acc)
      ELSE IF overlaps(acc.occupied, m.index, m.end) THEN ScanClauses(s, m.end, acc)
      ELSE ScanClauses(s, m.end,
             [acc EXCEPT
                !.results = Append(@, Lint(m.index, m.end, s, sugg, "Punctuation", "clause")),
                !.occupied = Append(@, <<m.index, m.end>>)])
  IN  CHOOSE r \in {iteration(m, acc) : m \in {ClauseExec(s, lastIndex, subjects, verbs)},
                                        acc \in {pass}} : TRUE

\* the imperative scan of detectRunOnClauses
RECURSIVE ScanImperatives(_, _, _)
ScanImperatives(s, lastIndex, pass) ==
  LET iteration(m, acc) ==
    LET
      word == Capture(s, m, 1)
      verb == Capture(s, m, 2)
      object == Capture(s, m, 3)
      cb == charBefore(s, m.index)
      sugg == << word \o <<",", " ">> \o verb \o <<" ">> \o object,
                 word \o <<".", " ">> \o capitalize(verb) \o <<" ">> \o object >>
  IN  IF ~m.ok THEN acc
      ELSE IF toLowerCase(word) \notin clauseEndingWords THEN ScanImperatives(s, m.end, acc)
      ELSE IF cb # <<>> /\ cb[1] \in Punctuation THEN ScanImperatives(s, m.end, acc)
      ELSE IF toLowerCase(word) \in legitimatePreceding THEN ScanImperatives(s, m.end, acc)
      ELSE IF overlaps(acc.occupied, m.index, m.end) THEN ScanImperatives(s, m.end, acc)
      ELSE ScanImperatives(s, m.end,
             [acc EXCEPT
                !.results = Append(@, Lint(m.index, m.end, s, sugg, "Punctuation", "clause")),
                !.occupied = Append(@, <<m.index, m.end>>)])
  IN  CHOOSE r \in {iteration(m, acc) :
                      m \in {ClauseExec(s, lastIndex, imperativeVerbs, imperativeObjects)},
                      acc \in {pass}} : TRUE

\* detectRunOnClauses(text, occupied): both scans share the occupied list
\* of the caller and push onto it.
detectRunOnClauses(s, occupied) ==
  ScanImperatives(s, 0, ScanClauses(s, 0, Pass(occupied, <<>>)))

SpansOf(lints) == [i \in 1..Len(lints) |-> <<lints[i].span.start, lints[i].span.end>>]

\* runCustomRules(text, existingLints) over the rule table rules: the lints
\* of the table rules followed by those of detectRunOnClauses.  threw: an
\* exception left the function; hung: the function never returned.
runCustomRules(rules, s, existingLints) ==
  LET clauses(afterRules) ==
        IF afterRules.threw \/ afterRules.hung THEN afterRules
        ELSE LET merge(runOn) ==
                   [afterRules EXCEPT !.results = @ \o runOn.results,
                                      !.occupied = runOn.occupied]
             IN  CHOOSE r \in {merge(runOn) :
                                 runOn \in {detectRunOnClauses(s, afterRules.occupied)}} : TRUE
  IN  CHOOSE r \in {clauses(afterRules) :
                      afterRules \in {ScanRules(rules, 1, s, Pass(SpansOf(existingLints), <<>>))}} : TRUE

\* ------------------------------------------------------------------------
\* service-worker.js: post-processing of the engine's lints
\* ------------------------------------------------------------------------

\* COMMON_MISSPELLINGS, restricted to the keys the texts of this model use
COMMON_MISSPELLINGS_KEYS == {<<"w", "r", "i", "t", "t", "i", "n", "g">>, <<"r", "e", "c", "i", "e", "v", "e">>}

COMMON_MISSPELLINGS(k) ==
  IF k = <<"w", "r", "i", "t", "t", "i", "n", "g">> THEN <<"w", "r", "i", "t", "i", "n", "g">> ELSE <<"r", "e", "c", "e", "i", "v", "e">>

\* sugText.split(/\s+/)
RECURSIVE SplitWS(_, _, _)
SplitWS(s, p, cur) ==
  IF p >= Len(s) THEN <<cur>>
  ELSE IF IsSpace(s[p + 1])
       THEN <<cur>> \o SplitWS(s, SkipSpaces(s, p), <<>>)
       ELSE SplitWS(s, p + 1, Append(cur, s[p + 1]))

RECURSIVE Join(_)
Join(parts) == IF parts = <<>> THEN <<>> ELSE Head(parts) \o Join(Tail(parts))

Abs(n) == IF n < 0 THEN -n ELSE n

CONSONANTS == {"b", "c", "d", "f", "g", "h", "j", "k", "l", "m", "n", "p", "q",
               "r", "s", "t", "v", "w", "x", "y", "z"}

\* word.replace(/([bcdfghjklmnpqrstvwxyz])\1/g, '$1')
RECURSIVE Dedupe(_, _)
Dedupe(w, p) ==
  IF p >= Len(w) THEN <<>>
  ELSE IF p + 1 < Len(w) /\ w[p + 1] \in CONSONANTS /\ w[p + 2] = w[p + 1]
       THEN <<w[p + 1]>> \o Dedupe(w, p + 2)
       ELSE <<w[p + 1]>> \o Dedupe(w, p + 1)

\* fixDoubledLetters(word): the collapsed word, or <<>> for null
fixDoubledLetters(word) == IF Dedupe(word, 0) # word THEN Dedupe(word, 0) ELSE <<>>

\* matchCase(fixed, original)
matchCase(fixed, original) ==
  IF original = <<>> \/ fixed = <<>> THEN fixed
  ELSE IF original = toUpperCase(original) THEN toUpperCase(fixed)
  ELSE IF original[1] = UpperChar(original[1]) THEN <<UpperChar(fixed[1])>> \o Tail(fixed)
  ELSE fixed

\* the filter with the test of the part lengths alone
KeepSuggestionByParts(problem, sugText) ==
  IF includes(sugText, <<" ">>)
  THEN LET parts == SplitWS(sugText, 0, <<>>)
       IN  \A i \in 1..Len(parts) : Len(parts[i]) >= 3
  ELSE TRUE

\* the filter of fixHarperSuggestions over the suggestions of one lint
KeepSuggestion(problem, sugText) ==
  IF includes(sugText, <<" ">>)
  THEN LET parts == SplitWS(sugText, 0, <<>>)
       IN  /\ \A i \in 1..Len(parts) : Len(parts[i]) >= 3
           /\ ~(Abs(Len(Join(parts)) - Len(problem)) <= 1)
  ELSE TRUE

\* the body of the for loop of fixHarperSuggestions for one lint
fixHarperLint(lint) ==
  LET problem == toLowerCase(lint.problemText)
      keep(sg) == KeepSuggestion(problem, sg)
      kept == SelectSeq(lint.suggestions, keep)
      fixed == fixDoubledLetters(problem)
  IN  IF problem = <<>> THEN lint
      ELSE IF problem \in COMMON_MISSPELLINGS_KEYS
           THEN [lint EXCEPT !.suggestions = <<COMMON_MISSPELLINGS(problem)>>]
      ELSE IF includes(problem, <<" ">>) THEN lint
      ELSE IF kept = <<>> /\ lint.lintKind \in {"Spelling", "Typo"}
              /\ fixed # <<>> /\ fixed # problem
           THEN [lint EXCEPT !.suggestions = <<matchCase(fixed, lint.problemText)>>]
           ELSE [lint EXCEPT !.suggestions = kept]

\* fixHarperSuggestions(lints, text): every lint is kept
fixHarperSuggestions(lints) == [i \in 1..Len(lints) |-> fixHarperLint(lints[i])]

\* the insertion before an element of equal start: a sort that is not stable
InsertByStartUnstable(sorted, l) ==
  IF sorted = <<>> THEN <<l>>
  ELSE LET before == SelectSeq(sorted, LAMBDA x : x.span.start < l.span.start)
           after == SelectSeq(sorted, LAMBDA x : x.span.start >= l.span.start)
       IN  before \o <<l>> \o after

\* Array.prototype.sort((a, b) => a.span.start - b.span.start): stable
RECURSIVE InsertByStart(_, _)
InsertByStart(sorted, l) ==
  IF sorted = <<>> THEN <<l>>
  ELSE IF sorted[Len(sorted)].span.start <= l.span.start THEN Append(sorted, l)
  ELSE Append(InsertByStart(SubSeq(sorted, 1, Len(sorted) - 1), l), sorted[Len(sorted)])

RECURSIVE sortByStart(_)
sortByStart(lints) ==
  IF lints = <<>> THEN <<>>
  ELSE InsertByStart(sortByStart(SubSeq(lints, 1, Len(lints) - 1)), lints[Len(lints)])

\* ------------------------------------------------------------------------
\* The page: the DOM of a contenteditable element
\* ------------------------------------------------------------------------

\* A node is a record: tag ("#text" for a text node), id (its identity),
\* cls (its class), text (the data of a text node) and children.
TextNode(id, text) ==
  [tag |-> "#text", id |-> id, cls |-> "", text |-> text, children |-> <<>>]

Element(tag, id, cls, children) ==
  [tag |-> tag, id |-> id, cls |-> cls, text |-> <<>>, children |-> children]

CONTAINER_CLASS == "spelling-tab-ce-container"

\* an allow-list of block tags turned into a list of inline tags: every
\* tag that is not a known block counts as inline
inlineTagsByBlockList ==
  {"A", "B", "SPAN", "SHREDDIT-COMPOSER"}

inlineTags ==
  {"A", "ABBR", "ACRONYM", "B", "BDI", "BDO", "BIG", "CITE", "CODE", "DATA", "DEL",
   "DFN", "EM", "FONT", "I", "IMG", "INS", "KBD", "LABEL", "MARK", "Q", "RP", "RT",
   "RUBY", "S", "SAMP", "SMALL", "SPAN", "STRIKE", "STRONG", "SUB", "SUP", "TIME",
   "TT", "U", "VAR", "WBR"}

\* a synthetic entry that ends where it starts
NewlineEntryOfNoLength(offset) ==
  [node |-> 0, start |-> offset, end |-> offset, synthetic |-> TRUE, char |-> "\n"]

NewlineEntry(offset) ==
  [node |-> 0, start |-> offset, end |-> offset + 1, synthetic |-> TRUE, char |-> "\n"]

\* walk(node) of buildTextMap; acc holds nodeMap, offset and the text of the
\* entries pushed so far.
RECURSIVE walk(_, _)
RECURSIVE walkChildren(_, _, _)
walk(node, acc) ==
  IF node.tag # "#text" /\ node.cls = CONTAINER_CLASS THEN acc
  ELSE IF node.tag = "#text"
  THEN IF Len(node.text) > 0
       THEN [nodeMap |-> Append(acc.nodeMap,
                           [node |-> node.id, start |-> acc.offset,
                            end |-> acc.offset + Len(node.text),
                            synthetic |-> FALSE, char |-> ""]),
             offset |-> acc.offset + Len(node.text),
             text |-> acc.text \o node.text]
       ELSE acc
  ELSE IF node.tag = "BR"
  THEN [nodeMap |-> Append(acc.nodeMap, NewlineEntry(acc.offset)),
        offset |-> acc.offset + 1,
        text |-> Append(acc.text, "\n")]
  ELSE LET isBlock == node.tag \notin inlineTags
           prevIsNewline == /\ acc.nodeMap # <<>>
                            /\ acc.nodeMap[Len(acc.nodeMap)].synthetic
                            /\ acc.nodeMap[Len(acc.nodeMap)].char = "\n"
       IN  IF isBlock /\ acc.offset > 0 /\ ~prevIsNewline
           THEN walkChildren(node.children, 1,
                  [nodeMap |-> Append(acc.nodeMap, NewlineEntry(acc.offset)),
                   offset |-> acc.offset + 1,
                   text |-> Append(acc.text, "\n")])
           ELSE walkChildren(node.children, 1, acc)

walkChildren(children, k, acc) ==
  IF k > Len(children) THEN acc
  ELSE CHOOSE r \in {walkChildren(children, k + 1, a) : a \in {walk(children[k], acc)}} : TRUE

\* buildTextMap(root), root given by its child nodes: { text, nodeMap }
buildTextMap(rootChildren) ==
  LET done(acc) == [text |-> acc.text, nodeMap |-> acc.nodeMap]
  IN  CHOOSE r \in {done(acc) :
                      acc \in {walkChildren(rootChildren, 1,
                                 [nodeMap |-> <<>>, offset |-> 0, text |-> <<>>])}} : TRUE

NullEntry == [node |-> 0, start |-> 0, end |-> 0, synthetic |-> TRUE, char |-> ""]

\* findNodeAtOffset(nodeMap, offset); NullEntry stands for null
findNodeAtOffset(nodeMap, offset) ==
  LET real == {i \in 1..Len(nodeMap) : ~nodeMap[i].synthetic}
      inside == {i \in real : offset >= nodeMap[i].start /\ offset <= nodeMap[i].end}
      after == {i \in real : nodeMap[i].start >= offset}
      first(S) == nodeMap[CHOOSE i \in S : \A j \in S : i <= j]
  IN  IF inside # {} THEN first(inside)
      ELSE IF after # {} THEN first(after)
      ELSE NullEntry

\* the text nodes below a list of siblings, in document order
RECURSIVE textNodes(_, _)
textNodes(nodes, k) ==
  IF k > Len(nodes) THEN <<>>
  ELSE (IF nodes[k].tag = "#text" THEN <<nodes[k]>> ELSE textNodes(nodes[k].children, 1))
       \o textNodes(nodes, k + 1)

\* whether a text node with this id is in the tree, and its textContent
HasTextNode(rootChildren, id) ==
  \E i \in 1..Len(textNodes(rootChildren, 1)) : textNodes(rootChildren, 1)[i].id = id

textContent(rootChildren, id) ==
  LET all == textNodes(rootChildren, 1)
  IN  all[CHOOSE i \in 1..Len(all) : all[i].id = id].text

\* element.textContent of the root: the data of all its text nodes
rootTextContent(rootChildren) ==
  LET all == textNodes(rootChildren, 1)
      RECURSIVE cat(_)
      cat(k) == IF k > Len(all) THEN <<>> ELSE all[k].text \o cat(k + 1)
  IN  cat(1)

\* the tree with the data of every text node replaced by data[node.id]
RECURSIVE mapText(_, _, _)
mapText(nodes, k, data) ==
  IF k > Len(nodes) THEN <<>>
  ELSE <<IF nodes[k].tag = "#text"
         THEN [nodes[k] EXCEPT !.text = data[nodes[k].id]]
         ELSE [nodes[k] EXCEPT !.children = mapText(nodes[k].children, 1, data)]>>
       \o mapText(nodes, k + 1, data)

\* range.setStart(node, offset) / range.setEnd(node, offset) throw an
\* IndexSizeError when the offset is negative or beyond the node's length.
BoundaryThrows(rootChildren, id, offset) ==
  \/ ~HasTextNode(rootChildren, id)
  \/ offset < 0
  \/ offset > Len(textContent(rootChildren, id))

\* document.execCommand('insertText', false, r) with the selection set to
\* the range (startNode, startOffset)..(endNode, endOffset) of text-node
\* boundary points: the contents of the range are deleted and r is inserted
\* at its start.  A range whose end lies before its start is collapsed to
\* its end (Range.setEnd).
insertText(rootChildren, startNode, startOffset, endNode, endOffset, r) ==
  LET all == textNodes(rootChildren, 1)
      pos(id) == CHOOSE i \in 1..Len(all) : all[i].id = id
      ke == pos(endNode)
      backwards == pos(startNode) > ke \/ (pos(startNode) = ke /\ startOffset > endOffset)
      ks == IF backwards THEN ke ELSE pos(startNode)
      so == IF backwards THEN endOffset ELSE startOffset
      data(k) ==
        IF k < ks \/ k > ke THEN all[k].text
        ELSE IF k = ks /\ k = ke
             THEN SubSeq(all[k].text, 1, so) \o r
                    \o SubSeq(all[k].text, endOffset + 1, Len(all[k].text))
        ELSE IF k = ks THEN SubSeq(all[k].text, 1, so) \o r
        ELSE IF k = ke THEN SubSeq(all[k].text, endOffset + 1, Len(all[k].text))
        ELSE <<>>
  IN  [dom |-> mapText(rootChildren, 1,
                 [id \in {all[k].id : k \in 1..Len(all)} |-> data(pos(id))]),
       caret |-> [node |-> all[ks].id, offset |-> so + Len(r)]]

NullNode == [tag |-> "", id |-> -1, cls |-> "", text |-> <<>>, children |-> <<>>]

\* the node with this id below a list of siblings (NullNode when absent)
RECURSIVE findNode(_, _, _)
findNode(nodes, k, id) ==
  IF k > Len(nodes) THEN NullNode
  ELSE IF nodes[k].id = id THEN nodes[k]
  ELSE IF findNode(nodes[k].children, 1, id) # NullNode
       THEN findNode(nodes[k].children, 1, id)
       ELSE findNode(nodes, k + 1, id)

ROOT == 0

\* node.childNodes; the root element has the id ROOT
childNodes(rootChildren, id) ==
  IF id = ROOT THEN rootChildren ELSE findNode(rootChildren, 1, id).children

\* range.insertNode(node) for a range collapsed at (parent, index), parent
\* an element: node becomes the child of parent at that index
RECURSIVE insertNode(_, _, _, _, _)
insertNode(nodes, k, parent, index, node) ==
  IF parent = ROOT
  THEN SubSeq(nodes, 1, index) \o <<node>> \o SubSeq(nodes, index + 1, Len(nodes))
  ELSE IF k > Len(nodes) THEN <<>>
  ELSE <<IF nodes[k].id = parent
         THEN [nodes[k] EXCEPT !.children =
                 SubSeq(@, 1, index) \o <<node>> \o SubSeq(@, index + 1, Len(@))]
         ELSE [nodes[k] EXCEPT !.children = insertNode(@, 1, parent, index, node)]>>
       \o insertNode(nodes, k + 1, parent, index, node)

\* node.remove()
RECURSIVE removeNode(_, _, _)
removeNode(nodes, k, id) ==
  IF k > Len(nodes) THEN <<>>
  ELSE (IF nodes[k].id = id THEN <<>>
        ELSE <<[nodes[k] EXCEPT !.children = removeNode(@, 1, id)]>>)
       \o removeNode(nodes, k + 1, id)

ZWSP == "\\u200B"

\* range.getClientRects() of a collapsed range has a rectangle when the
\* caret is inside a text node; on an empty line the caret sits at an
\* element and the list is empty.
caretHasRect(rootChildren, caret) == HasTextNode(rootChildren, caret.node)

\* the zero-width span of the fallback is inserted and left in the tree
readCaretNowKeepingSpan(rootChildren, caret, spanId) ==
  IF caretHasRect(rootChildren, caret)
  THEN [dom |-> rootChildren, caret |-> caret, pos |-> "rect"]
  ELSE [dom |-> insertNode(rootChildren, 1, caret.node, caret.offset,
                  Element("SPAN", spanId, "", <<TextNode(spanId + 1, <<ZWSP>>)>>)),
        caret |-> caret, pos |-> "span"]

\* TabHint._readCaretNow for a caret in a contenteditable element: the tree
\* and the selection it leaves, and whether a position was measured on a
\* rectangle of the range or on the temporary zero-width span.
readCaretNow(rootChildren, caret, spanId) ==
  IF caretHasRect(rootChildren, caret)
  THEN [dom |-> rootChildren, caret |-> caret, pos |-> "rect"]
  ELSE LET span == Element("SPAN", spanId, "", <<TextNode(spanId + 1, <<ZWSP>>)>>)
           inserted == insertNode(rootChildren, 1, caret.node, caret.offset, span)
           parent == caret.node
           offset == (CHOOSE i \in 1..Len(childNodes(inserted, parent)) :
                         childNodes(inserted, parent)[i].id = spanId) - 1
           removed == removeNode(inserted, 1, spanId)
       IN  [dom |-> removed,
            caret |-> [node |-> parent,
                       offset |-> Min(offset, Len(childNodes(removed, parent)))],
            pos |-> "span"]

\* _lastTextNode(node): the id of the last text node below it, or -1
RECURSIVE lastTextNode(_)
lastTextNode(node) ==
  IF node.tag = "#text" THEN node.id
  ELSE LET found == {i \in 1..Len(node.children) : lastTextNode(node.children[i]) # -1}
       IN  IF found = {} THEN -1
           ELSE lastTextNode(node.children[CHOOSE i \in found : \A j \in found : i >= j])

\* getCursorOffset(element): the caret as an offset of state.nodeMap, or -1
getCursorOffset(rootChildren, caret, nodeMap) ==
  LET children == childNodes(rootChildren, caret.node)
      atElement == ~HasTextNode(rootChildren, caret.node)
      before == {k \in 1..caret.offset : lastTextNode(children[k]) # -1}
      resolved ==
        IF ~atElement THEN caret
        ELSE IF caret.offset < Len(children)
        THEN IF children[caret.offset + 1].tag = "#text"
             THEN [node |-> children[caret.offset + 1].id, offset |-> 0]
             ELSE IF before = {} THEN caret
             ELSE LET prev == lastTextNode(children[CHOOSE k \in before :
                                                       \A j \in before : k >= j])
                  IN  [node |-> prev, offset |-> Len(textContent(rootChildren, prev))]
        ELSE IF Len(children) > 0
                  /\ lastTextNode(Element("", caret.node, "", children)) # -1
        THEN LET last == lastTextNode(Element("", caret.node, "", children))
             IN  [node |-> last, offset |-> Len(textContent(rootChildren, last))]
        ELSE caret
      entries == {i \in 1..Len(nodeMap) : ~nodeMap[i].synthetic /\ nodeMap[i].node = resolved.node}
  IN  IF entries = {} \/ ~HasTextNode(rootChildren, resolved.node) THEN -1
      ELSE LET entry == nodeMap[CHOOSE i \in entries : \A j \in entries : i <= j]
           IN  entry.start + Min(resolved.offset, Len(textContent(rootChildren, resolved.node)))

\* _getParagraphRange(text, cursorOffset)
getParagraphRange(text, cursorOffset) ==
  LET nlBefore == lastIndexOf(text, <<"\n">>, cursorOffset - 1)
      nlAfter == indexOf(text, <<"\n">>, cursorOffset)
  IN  [start |-> IF nlBefore = -1 THEN 0 ELSE nlBefore + 1,
       end |-> IF nlAfter = -1 THEN Len(text) ELSE nlAfter]

\* String.prototype.trim
RECURSIVE trim(_)
trim(s) ==
  IF s = <<>> THEN s
  ELSE IF IsSpace(s[1]) THEN trim(Tail(s))
  ELSE IF IsSpace(s[Len(s)]) THEN trim(SubSeq(s, 1, Len(s) - 1))
  ELSE s

SentenceEnd == {".", "!", "?"}

MIN_SENTENCE_WORDS == 5

\* extractSentences(text): the matches of /[^.!?\n]+[.!?]*/g whose trimmed
\* text has five words or more, as the trimmed texts
RECURSIVE extractSentences(_, _)
extractSentences(text, lastIndex) ==
  LET body(c) == c \notin SentenceEnd /\ c # "\n"
      starts == {p \in lastIndex..(Len(text) - 1) : body(text[p + 1])}
      start == CHOOSE p \in starts : \A q \in starts : p <= q
      RECURSIVE run(_, _)
      run(p, inBody) ==
        IF p < Len(text) /\ (IF inBody THEN body(text[p + 1]) ELSE text[p + 1] \in SentenceEnd)
        THEN run(p + 1, inBody) ELSE p
      end == run(run(start, TRUE), FALSE)
      s == trim(SubSeq(text, start + 1, end))
  IN  IF starts = {} THEN {}
      ELSE (IF Len(SplitWS(s, 0, <<>>)) >= MIN_SENTENCE_WORDS THEN {s} ELSE {})
             \cup extractSentences(text, end)

\* ------------------------------------------------------------------------
\* Applying fixes: overlay-manager.js (textarea) and linter-client.js
\* (contenteditable)
\* ------------------------------------------------------------------------

\* Array.prototype.sort((a, b) => b.span.start - a.span.start): stable
RECURSIVE InsertByStartDesc(_, _)
InsertByStartDesc(sorted, l) ==
  IF sorted = <<>> THEN <<l>>
  ELSE IF sorted[Len(sorted)].span.start >= l.span.start THEN Append(sorted, l)
  ELSE Append(InsertByStartDesc(SubSeq(sorted, 1, Len(sorted) - 1), l), sorted[Len(sorted)])

RECURSIVE sortByStartDesc(_)
sortByStartDesc(lints) ==
  IF lints = <<>> THEN <<>>
  ELSE InsertByStartDesc(sortByStartDesc(SubSeq(lints, 1, Len(lints) - 1)), lints[Len(lints)])

\* text.substring(0, start) + replacement + text.substring(end)
splice(text, span, replacement) ==
  substring(text, 0, span.start) \o replacement \o substring(text, span.end, Len(text))

RECURSIVE spliceAll(_, _, _)
spliceAll(text, sorted, k) ==
  IF k > Len(sorted) THEN text
  ELSE CHOOSE r \in {spliceAll(spliced, sorted, k + 1) :
                       spliced \in {splice(text, sorted[k].span, sorted[k].suggestions[1])}} : TRUE

\* OverlayManager.applyAllFixes: whether fixes were applied, and the value
overlayApplyAllFixes(value, selectionStart, lints) ==
  LET para == getParagraphRange(value, selectionStart)
      fixable == SelectSeq(lints, LAMBDA l :
                   /\ Len(l.suggestions) > 0
                   /\ l.span.start >= para.start
                   /\ l.span.end <= para.end)
  IN  IF lints = <<>> \/ fixable = <<>>
      THEN [applied |-> FALSE, value |-> value]
      ELSE CHOOSE r \in {[applied |-> TRUE, value |-> spliceAll(value, sorted, 1)] :
                           sorted \in {sortByStartDesc(fixable)}} : TRUE

\* a single fix that drops the text after the span
overlayApplySingleFixDroppingTail(value, lint, suggestion) ==
  substring(value, 0, lint.span.start) \o suggestion

\* OverlayManager.applySingleFix: the value it sets
overlayApplySingleFix(value, lint, suggestion) == splice(value, lint.span, suggestion)

\* A contenteditable document: the children of the tracked element, the
\* selection (a collapsed range, NoCaret when the selection is empty), the
\* text nodes that were removed from the tree, and the next unused node id.
NoCaret == [node |-> -1, offset |-> 0]

CONTAINER_ID == 1

Container == Element("DIV", CONTAINER_ID, CONTAINER_CLASS, <<>>)

\* ensureContainer(element)
ensureContainer(rootChildren) ==
  IF \E i \in 1..Len(rootChildren) : rootChildren[i].id = CONTAINER_ID
  THEN rootChildren ELSE Append(rootChildren, Container)

IsLive(doc, id) == HasTextNode(doc.dom, id)

\* node.textContent of a text node, in the tree or removed from it
nodeData(doc, id) ==
  IF IsLive(doc, id) THEN textContent(doc.dom, id)
  ELSE (CHOOSE n \in doc.detached : n.id = id).text

\* ensureContainer; range.setStart / range.setEnd; removeAllRanges;
\* addRange; execCommand('insertText').  setStart and setEnd throw on an
\* offset outside the node.  A range that ends in a removed node is not in
\* the document, so the selection stays empty and nothing is inserted; a
\* range that starts in a removed node and ends in the tree is collapsed to
\* its end by setEnd.
selectAndInsert(doc, startInfo, startOffset, endInfo, endOffset, replacement) ==
  IF \/ startOffset < 0 \/ startOffset > Len(nodeData(doc, startInfo.node))
     \/ endOffset < 0 \/ endOffset > Len(nodeData(doc, endInfo.node))
  THEN [threw |-> TRUE, changed |-> FALSE, doc |-> doc]
  ELSE IF ~IsLive(doc, endInfo.node)
  THEN [threw |-> FALSE, changed |-> FALSE, doc |-> [doc EXCEPT !.caret = NoCaret]]
  ELSE LET sNode == IF IsLive(doc, startInfo.node) THEN startInfo.node ELSE endInfo.node
           sOff == IF IsLive(doc, startInfo.node) THEN startOffset ELSE endOffset
           done == insertText(doc.dom, sNode, sOff, endInfo.node, endOffset, replacement)
       IN  [threw |-> FALSE, changed |-> TRUE,
            doc |-> [doc EXCEPT !.dom = ensureContainer(done.dom), !.caret = done.caret]]

\* the lines of a text
RECURSIVE lines(_)
lines(text) ==
  LET nl == indexOf(text, <<"\n">>, 0)
  IN  IF nl = -1 THEN <<text>>
      ELSE <<SubSeq(text, 1, nl)>> \o lines(SubSeq(text, nl + 2, Len(text)))

\* The content execCommand('insertText') leaves when the whole element was
\* selected: one text node for a single line, and for several lines a
\* block per line (an empty line holds a line break).
domFromText(text, id) ==
  LET ls == lines(text)
      block(k) == Element("DIV", id + 2 * k, "",
                    IF ls[k] = <<>> THEN <<Element("BR", id + 2 * k + 1, "", <<>>)>>
                    ELSE <<TextNode(id + 2 * k + 1, ls[k])>>)
  IN  IF text = <<>> THEN <<>>
      ELSE IF Len(ls) = 1 THEN <<TextNode(id, text)>>
      ELSE [k \in 1..Len(ls) |-> block(k)]

\* _replaceContentFallback(element, state, lint, suggestion)
replaceContentFallback(doc, st, lint, suggestion) ==
  LET text == splice(st.text, lint.span, suggestion)
      content == domFromText(text, doc.nextId)
      old == textNodes(doc.dom, 1)
      last == lastTextNode(Element("", ROOT, "", content))
      after == [dom |-> ensureContainer(content),
                caret |-> IF last = -1 THEN [node |-> ROOT, offset |-> 0]
                          ELSE [node |-> last, offset |-> Len(textContent(content, last))],
                detached |-> doc.detached \cup {old[i] : i \in 1..Len(old)},
                nextId |-> doc.nextId + 2 * Len(lines(text)) + 2]
  IN  [doc |-> after,
       st |-> [st EXCEPT !.text = text, !.nodeMap = buildTextMap(after.dom).nodeMap],
       changed |-> TRUE]

\* _applyRangedFix(element, state, lint, suggestion)
applyRangedFix(doc, st, lint, suggestion) ==
  LET nodeMap == st.nodeMap
      startInfo == findNodeAtOffset(nodeMap, lint.span.start)
      endInfo == findNodeAtOffset(nodeMap, lint.span.end)
      startOffset == lint.span.start - startInfo.start
      endOffset == Min(lint.span.end - endInfo.start, Len(nodeData(doc, endInfo.node)))
      done == selectAndInsert(doc, startInfo, startOffset, endInfo, endOffset, suggestion)
      rebuilt == buildTextMap(done.doc.dom)
  IN  IF nodeMap = <<>> \/ startInfo = NullEntry \/ endInfo = NullEntry
      THEN [doc |-> doc, st |-> st, changed |-> FALSE]
      ELSE IF done.threw THEN replaceContentFallback(doc, st, lint, suggestion)
      ELSE [doc |-> done.doc,
            st |-> [st EXCEPT !.text = rebuilt.text, !.nodeMap = rebuilt.nodeMap],
            changed |-> done.changed]

SEARCH_RADIUS == 50

\* the search of applyAllFixes for the problem text: in the window around
\* the original span first, then in the whole text; -1 when absent
locateProblem(text, fix) ==
  LET searchStart == Max(0, fix.originalStart - SEARCH_RADIUS)
      searchEnd == Min(Len(text), fix.originalStart + Len(fix.problem) + SEARCH_RADIUS)
      nearbyText == substring(text, searchStart, searchEnd)
      localIdx == indexOf(nearbyText, fix.problem, 0)
  IN  IF localIdx # -1 THEN searchStart + localIdx ELSE indexOf(text, fix.problem, 0)

\* one iteration of the loop of applyAllFixes over the fixes
applyOneOfAll(doc, st, fix) ==
  LET located(map) ==
        LET seen == [st EXCEPT !.text = map.text, !.nodeMap = map.nodeMap]
            idx == locateProblem(map.text, fix)
            end == idx + Len(fix.problem)
            startInfo == findNodeAtOffset(map.nodeMap, idx)
            endInfo == findNodeAtOffset(map.nodeMap, end)
            done == selectAndInsert(doc, startInfo, idx - startInfo.start, endInfo,
                      Min(end - endInfo.start, Len(nodeData(doc, endInfo.node))),
                      fix.replacement)
        IN  IF idx = -1 \/ startInfo = NullEntry \/ endInfo = NullEntry \/ done.threw
            THEN [doc |-> doc, st |-> seen, changed |-> FALSE]
            ELSE [doc |-> done.doc, st |-> seen, changed |-> done.changed]
  IN  CHOOSE r \in {located(map) : map \in {buildTextMap(doc.dom)}} : TRUE

\* the loop over the fixes left at the first fix that changes nothing
RECURSIVE applyFixesAborting(_, _, _, _, _)
applyFixesAborting(doc, st, fixes, k, changed) ==
  IF k > Len(fixes) THEN [doc |-> doc, st |-> st, changed |-> changed]
  ELSE LET next(one) ==
             IF one.changed
             THEN applyFixesAborting(one.doc, one.st, fixes, k + 1, TRUE)
             ELSE [doc |-> one.doc, st |-> one.st, changed |-> changed]
       IN  CHOOSE r \in {next(one) : one \in {applyOneOfAll(doc, st, fixes[k])}} : TRUE

\* the loop of applyAllFixes over the fixes
RECURSIVE applyFixes(_, _, _, _, _)
applyFixes(doc, st, fixes, k, changed) ==
  IF k > Len(fixes) THEN [doc |-> doc, st |-> st, changed |-> changed]
  ELSE LET next(one) == applyFixes(one.doc, one.st, fixes, k + 1, changed \/ one.changed)
       IN  CHOOSE r \in {next(one) : one \in {applyOneOfAll(doc, st, fixes[k])}} : TRUE

\* the lints applyAllFixes will fix: with a suggestion, not across a
\* newline, and inside the cursor's paragraph when the cursor was found
ceFixable(doc, st) ==
  LET cursorOffset == getCursorOffset(doc.dom, doc.caret, st.nodeMap)
      paraRange == getParagraphRange(st.text, cursorOffset)
      hasPara == cursorOffset >= 0 /\ st.text # <<>>
  IN  SelectSeq(st.lints, LAMBDA l :
        /\ Len(l.suggestions) > 0
        /\ ~includes(substring(st.text, l.span.start, l.span.end), <<"\n">>)
        /\ hasPara => (l.span.start >= paraRange.start /\ l.span.end <= paraRange.end))

\* the fixes of applyAllFixes: problem text, replacement and recorded
\* offset of every fixable lint, in descending order of span.start
ceFixes(doc, st) ==
  LET fixable == ceFixable(doc, st)
  IN  sortByStartDesc(
        [i \in 1..Len(fixable) |->
           [problem |-> substring(st.text, fixable[i].span.start, fixable[i].span.end),
            replacement |-> fixable[i].suggestions[1],
            originalStart |-> fixable[i].span.start,
            span |-> fixable[i].span]])

\* ContentEditableHandler.applyAllFixes
ceApplyAllFixes(doc, st) ==
  IF st.lints = <<>> \/ ceFixable(doc, st) = <<>>
  THEN [applied |-> FALSE, doc |-> doc, st |-> st, changed |-> FALSE]
  ELSE CHOOSE r \in {[applied |-> TRUE] @@ applyFixes(doc, st, sorted, 1, FALSE) :
                       sorted \in {ceFixes(doc, st)}} : TRUE

\* ------------------------------------------------------------------------
\* Bounds and inputs of the service-worker model
\* ------------------------------------------------------------------------

\* number of 'lint' messages a behaviour receives
MaxRequests == 2

\* number of browser tabs
MaxTabs == 1

\* number of calls of sendToOffscreen
MaxCalls == 3

Tabs == 1..MaxTabs

T_heDont == <<"h", "e", " ", "d", "o", "n", "'", "t", " ", "l", "i", "k", "e", " ", "i", "t">>
T_stop == <<"s", "t", "o", "p", " ", "h", "e", " ", "d", "o", "n", "'", "t", " ", "g", "o">>
T_day == <<"a", " ", "d", "a", "y", " ", "k", "e", "e", "p", " ", "a", "n", " ", "e", "y", "e">>
T_hi == <<"H", "i", ".", " ", "i", " ", "a", "m">>

T_writting == <<"W", "r", "i", "t", "t", "i", "n", "g">>

\* a text with a junction of two independent clauses
T_now == <<"n", "o", "w", " ", "h", "e", " ", "i", "s">>

\* a text one rule of the table matches twice
T_twice == <<"i", "t", " ", "d", "o", "n", "t", " ", "h", "e", " ", "d", "o", "n", "t">>

\* the texts the content scripts send
Texts == {T_heDont, T_stop, T_day, T_now, T_hi, T_writting, T_twice}

\* suggestions of the engine for "don't"
sg_doNot == <<"d", "o", " ", "n", "o", "t">>
sg_doesnt == <<"d", "o", "e", "s", "n", "'", "t">>
sg_donNot == <<"d", "o", "n", " ", "n", "o", "t">>
sg_doesNot == <<"d", "o", "e", "s", " ", "n", "o", "t">>

EngineLint(s, start, end, suggestion, kind) ==
  Lint(start, end, s, <<suggestion>>, kind, "engine")

\* the letters of the words a user pastes into a field
PasteLetters == <<"b", "c", "f", "g", "k", "q", "v", "z">>

\* the n-th of the texts a user pastes: a word of two letters that is in no
\* dictionary
PastedText(n) ==
  <<PasteLetters[((n - 1) \div Len(PasteLetters)) + 1],
    PasteLetters[((n - 1) % Len(PasteLetters)) + 1]>>

PastedTexts == {PastedText(n) : n \in 1..(Len(PasteLetters) * Len(PasteLetters))}

\* What the grammar engine (harper.js LocalLinter.lint, outside this
\* repository) may answer for a text: a list of lints with valid spans.
\* A lint that proposes an insertion has an empty span.
\* The engine removes overlapping lints itself before it answers.
EngineAnswers(s) ==
  CASE s = T_heDont ->
         { <<>>,
           <<EngineLint(s, 0, 2, <<"H", "e">>, "Capitalization"),
             EngineLint(s, 9, 13, <<"l", "i", "k", "e", "s">>, "Agreement")>> }
    [] s = T_stop ->
         { <<EngineLint(s, 14, 16, <<"g", "o", "e", "s">>, "Grammar")>>,
           <<EngineLint(s, 0, 0, <<"\"">>, "Punctuation"),
             EngineLint(s, 5, 5, <<",">>, "Punctuation")>>,
           <<Lint(8, 13, s, <<sg_doNot, sg_doesnt, sg_donNot, sg_doesNot>>, "Agreement", "engine")>> }
    [] s = T_writting ->
         { <<EngineLint(s, 0, 8, <<"W", "r", "i", "t", " ", "t", "i", "n", "g">>, "Spelling")>> }
    [] s = T_twice ->
         { <<>>,
           <<EngineLint(s, 0, 2, <<"I", "t">>, "Capitalization")>> }
    [] s \in PastedTexts ->
         { <<EngineLint(s, 0, Len(s), <<s[1], "o", s[2]>>, "Spelling")>> }
    [] OTHER -> { <<>> }

AILint(s, start, end, suggestion) ==
  Lint(start, end, s, <<suggestion>>, "Grammar", "ai")

\* What the offscreen document may answer to 'ai-proofread' for a text (the
\* corrections of Chrome's Proofreader API, outside this repository): lists
\* of corrections with valid spans, in the order of the API.  handleProofread
\* copies startIndex and endIndex as they come, so two corrections of one
\* answer may cover the same characters.
AICorrections(s) ==
  CASE s = T_heDont ->
         { <<>>,
           <<AILint(s, 3, 8, <<"d", "o", "e", "s", "n", "'", "t">>), AILint(s, 14, 16, <<"t", "h", "e", "m">>)>>,
           <<AILint(s, 9, 13, <<"l", "i", "k", "e", "s">>),
             AILint(s, 9, 16, <<"l", "i", "k", "e", "s", " ", "i", "t">>)>> }
    [] s = T_stop ->
         { <<AILint(s, 0, 4, <<"S", "t", "o", "p", ",">>)>> }
    [] OTHER -> { <<>> }

\* ------------------------------------------------------------------------
\* service-worker.js: state
\* ------------------------------------------------------------------------

VARIABLES
  isEnabled,      \* let isEnabled
  storedEnabled,  \* chrome.storage.local 'enabled'
  ruleTable,      \* the RULES array the worker was built with
  tabLints,       \* const tabLints: a function from the tab ids that have an entry
  badge,          \* chrome.action badge text per tab, as a number (0: '')
  requests,       \* the 'lint' messages received so far, with what the engine
                  \* answered (engine), how the handler ended (outcome), the reply
                  \* and the occupied list runCustomRules ended with
  lastPass,       \* per tab, the request whose pass stored tabLints last (0: none)
  aiPending,      \* the requestAIProofread calls awaiting the offscreen answer
  aiLog,          \* what sendToOffscreen returned to each call that has ended
  tabMessages     \* the messages sent with chrome.tabs.sendMessage

\* the offscreen document and the calls of ensureOffscreen
VARIABLES
  offscreenCreating,  \* let offscreenCreating: 0 for null, else the number of the
                      \* createDocument promise it holds
  creations,          \* the promises createDocument has returned: "pending",
                      \* "fulfilled" or "rejected"
  ensureCalls,        \* the calls of ensureOffscreen: where each one stands (pc)
                      \* and the promise it awaits
  toBrowser,          \* the chrome.offscreen calls the browser has not handled yet
  toWorker,           \* the answers of the browser the worker has not received yet
  offscreenDoc        \* the offscreen document of the extension: "none", "loading"
                      \* or "loaded", and the promise of its creation

offscreenVars == <<offscreenCreating, creations, ensureCalls, toBrowser, toWorker,
                   offscreenDoc>>

swVars == <<isEnabled, storedEnabled, ruleTable, tabLints, badge, requests,
            lastPass, aiPending, aiLog, tabMessages, offscreenVars>>

\* ------------------------------------------------------------------------
\* Content scripts: the state of one tracked field of a page
\* ------------------------------------------------------------------------

VARIABLES
  kind,           \* "textarea" (OverlayManager), "ce" (ContentEditableHandler),
                  \* "none" when no field is tracked
  value,          \* element.value of the textarea
  selectionStart, \* element.selectionStart of the textarea
  doc,            \* the contenteditable element: children, selection, removed
                  \* text nodes, next unused node id
  st,             \* the handler's state of the element: lints, text, nodeMap
  lintsOf,        \* the text snapshot the lints of st were computed on
  debounceTimer,  \* state.debounceTimer is pending
  checks,         \* the runCheck calls awaiting LinterClient.lint
  cache,          \* LinterClient.cache, in insertion order
  rendered,       \* the text and lints of the marks drawn last
  aiDebounce,     \* _aiDebounceTimer and the sentences it will check
  aiChecking,     \* _aiSentenceChecking
  aiRequests,     \* the 'ai-improve' messages awaiting their answer: a bag of
                  \* sentence texts
  aiCache,        \* the keys of _aiSentenceCache
  caretPos,       \* TabHint._caretPos: "null", "rect" or "span"
  lastFix,        \* the fix action taken last: "all" or "single", and the
                  \* lint span and replacement of a single fix
  nInputs,        \* number of input events of the user so far
  nClicks,        \* number of clicks of the user so far
  nFixes,         \* number of fix actions so far
  nFailures,      \* number of 'lint' messages that were rejected so far
  nAIReplies,     \* number of answers to 'ai-improve' so far
  timerDue,       \* the milliseconds left of every pending setTimeout of
                  \* runCheck, in the order the timers were set (kept only
                  \* where time is modelled)
  sinceInput      \* the milliseconds since the last input event, up to
                  \* the debounce delay

pageVars == <<kind, value, selectionStart, doc, st, lintsOf, debounceTimer, checks,
              cache, rendered, aiDebounce, aiChecking, aiRequests, aiCache, caretPos,
              lastFix, nInputs, nClicks, nFixes, nFailures, nAIReplies,
              timerDue, sinceInput>>

\* setTimeout(() => this.runCheck(element), 300)
DEBOUNCE_MS == 300

clockVars == <<timerDue, sinceInput>>

\* the popup of the extension
VARIABLES
  popup           \* popup.html: whether it is open, the lints it lists, and the
                  \* 'fix-single' message it has sent to the tab

popupVars == <<popup>>

\* no popup is open
NoPopup == [open |-> FALSE, tabId |-> 0, lints |-> <<>>, sent |-> <<>>]

vars == <<swVars, pageVars, popupVars>>

EmptyDoc == [dom |-> <<>>, caret |-> [node |-> -1, offset |-> 0], detached |-> {}, nextId |-> 0]

NoLintsOf == [valid |-> FALSE, text |-> <<>>]

NoFix == [kind |-> "none", span |-> [start |-> 0, end |-> 0], replacement |-> <<>>]

\* the handlers after construction, the element attached
Attached(k, v, d) ==
  /\ kind = k
  /\ value = v
  /\ selectionStart = Len(v)
  /\ doc = d
  /\ st = [lints |-> <<>>, text |-> <<>>, nodeMap |-> <<>>]
  /\ lintsOf = NoLintsOf
  /\ debounceTimer = FALSE
  /\ checks = {}
  /\ cache = <<>>
  /\ rendered = [text |-> <<>>, lints |-> <<>>]
  /\ aiDebounce = [pending |-> FALSE, sentences |-> {}]
  /\ aiChecking = {}
  /\ aiRequests = EmptyBag
  /\ aiCache = {}
  /\ caretPos = "null"
  /\ lastFix = NoFix
  /\ nInputs = 0
  /\ nClicks = 0
  /\ nFixes = 0
  /\ nFailures = 0
  /\ nAIReplies = 0
  /\ timerDue = <<>>
  /\ sinceInput = DEBOUNCE_MS

\* a page without a tracked field
NoField == Attached("none", <<>>, EmptyDoc)

\* the synchronous part of case 'lint' after the engine has answered:
\* fixHarperSuggestions, runCustomRules, the merge and the sort
FastPassRaw(rules, s, engineLints) ==
  LET merge(fixedHarper, custom) ==
        [threw |-> custom.threw,
         hung |-> custom.hung,
         rules |-> custom.rules,
         occupied |-> custom.occupied,
         allLints |-> sortByStart(fixedHarper \o custom.results)]
      customRules(fixedHarper) ==
        CHOOSE r \in {merge(fixedHarper, custom) :
                        custom \in {runCustomRules(rules, s, fixedHarper)}} : TRUE
  IN  CHOOSE r \in {customRules(fixedHarper) :
                      fixedHarper \in {fixHarperSuggestions(engineLints)}} : TRUE

FastPassTable ==
  [r \in {RULES, RULES_EDITED, RULES_SPACES} |->
     [s \in Texts |-> [e \in EngineAnswers(s) |-> FastPassRaw(r, s, e)]]]

FastPass(rules, s, engineLints) ==
  IF rules \in {RULES, RULES_EDITED, RULES_SPACES}
  THEN FastPassTable[rules][s][engineLints]
  ELSE FastPassRaw(rules, s, engineLints)

\* the filter and merge of requestAIProofread
newAILints(existingLints, corrections) ==
  LET occupied == SpansOf(existingLints)
      keep(aiLint) == ~overlaps(occupied, aiLint.span.start, aiLint.span.end)
  IN  SelectSeq(corrections, keep)

\* the merge with the lints of the fast pass left out
mergedAIOnly(existingLints, corrections) ==
  sortByStart(newAILints(existingLints, corrections))

merged(existingLints, corrections) ==
  sortByStart(existingLints \o newAILints(existingLints, corrections))

SWInit(rules) ==
  /\ isEnabled = TRUE
  /\ storedEnabled = TRUE
  /\ ruleTable = rules
  /\ tabLints = <<>>
  /\ badge = [t \in Tabs |-> 0]
  /\ requests = <<>>
  /\ lastPass = [t \in Tabs |-> 0]
  /\ aiPending = {}
  /\ aiLog = {}
  /\ tabMessages = <<>>
  /\ offscreenCreating = 0
  /\ creations = <<>>
  /\ ensureCalls = <<>>
  /\ toBrowser = <<>>
  /\ toWorker = <<>>
  /\ offscreenDoc = [state |-> "none", promise |-> 0]
  /\ popup = NoPopup

\* case 'lint' without the test of isEnabled
LintMessageIgnoringEnabled(tab, s) ==
  /\ Len(requests) < MaxRequests
  /\ requests' = Append(requests,
        [tab |-> tab, text |-> s, status |-> "inflight", outcome |-> "none",
         engine |-> <<>>, lints |-> <<>>, occupied |-> <<>>])
  /\ UNCHANGED <<isEnabled, storedEnabled, ruleTable, tabLints, badge, lastPass,
                 aiPending, aiLog, tabMessages>>
  /\ UNCHANGED offscreenVars
  /\ UNCHANGED pageVars
  /\ UNCHANGED popupVars

\* handleMessage, case 'lint', up to its first await: a disabled worker
\* answers at once with no lints.
LintMessage(tab, s) ==
  /\ Len(requests) < MaxRequests
  /\ requests' = Append(requests,
        [tab |-> tab, text |-> s,
         status |-> IF isEnabled THEN "inflight" ELSE "replied",
         outcome |-> IF isEnabled THEN "none" ELSE "disabled",
         engine |-> <<>>,
         lints |-> <<>>,
         occupied |-> <<>>])
  /\ UNCHANGED <<isEnabled, storedEnabled, ruleTable, tabLints, badge, lastPass,
                 aiPending, aiLog, tabMessages>>
  /\ UNCHANGED offscreenVars
  /\ UNCHANGED pageVars
  /\ UNCHANGED popupVars

\* handleMessage, case 'lint', the try block fails in initLinter() or in
\* l.lint(): the catch answers { lints: [] }.
LintEngineFails(id) ==
  /\ id \in 1..Len(requests)
  /\ requests[id].status = "inflight"
  /\ requests' = [requests EXCEPT ![id].status = "replied",
                                  ![id].outcome = "engineFailed",
                                  ![id].lints = <<>>]
  /\ UNCHANGED <<isEnabled, storedEnabled, ruleTable, tabLints, badge, lastPass,
                 aiPending, aiLog, tabMessages>>
  /\ UNCHANGED offscreenVars
  /\ UNCHANGED pageVars
  /\ UNCHANGED popupVars

\* handleMessage, case 'lint', after the engine has answered engineLints
LintPass(id, engineLints) ==
  /\ id \in 1..Len(requests)
  /\ requests[id].status = "inflight"
  /\ \E pass \in {FastPass(ruleTable, requests[id].text, engineLints)} :
     LET tabId == requests[id].tab
         s == requests[id].text
     IN  /\ ruleTable' = pass.rules
         /\ IF pass.hung
             THEN /\ requests' = [requests EXCEPT ![id].status = "hung", ![id].outcome = "hung",
                                                  ![id].engine = engineLints,
                                                  ![id].occupied = pass.occupied]
                  /\ UNCHANGED <<tabLints, badge, lastPass, aiPending>>
             ELSE IF pass.threw
             THEN /\ requests' = [requests EXCEPT ![id].status = "replied",
                                                  ![id].outcome = "ruleThrew",
                                                  ![id].engine = engineLints,
                                                  ![id].lints = <<>>,
                                                  ![id].occupied = pass.occupied]
                  /\ UNCHANGED <<tabLints, badge, lastPass, aiPending>>
             ELSE /\ tabLints' = [t \in (DOMAIN tabLints) \cup {tabId} |->
                                    IF t = tabId THEN pass.allLints ELSE tabLints[t]]
                  /\ badge' = [badge EXCEPT ![tabId] = Len(pass.allLints)]
                  /\ lastPass' = [lastPass EXCEPT ![tabId] = id]
                  /\ aiPending' = IF Len(s) >= 10
                                  THEN aiPending \cup {[id |-> id, text |-> s, tabId |-> tabId,
                                                        existingLints |-> pass.allLints]}
                                  ELSE aiPending
                  /\ requests' = [requests EXCEPT ![id].status = "replied",
                                                  ![id].outcome = "linted",
                                                  ![id].engine = engineLints,
                                                  ![id].lints = pass.allLints,
                                                  ![id].occupied = pass.occupied]
  /\ UNCHANGED <<isEnabled, storedEnabled, aiLog, tabMessages>>
  /\ UNCHANGED offscreenVars
  /\ UNCHANGED pageVars
  /\ UNCHANGED popupVars

\* requestAIProofread after sendToOffscreen has answered with the given
\* corrections: dedupe against existingLints, merge, sort, store, notify.
requestAIProofread(req, corrections) ==
  /\ req \in aiPending
  /\ aiPending' = aiPending \ {req}
  /\ aiLog' = aiLog \cup {[id |-> req.id, result |-> [available |-> TRUE, corrections |-> corrections,
                                                failed |-> FALSE]]}
  /\ IF corrections = <<>> \/ newAILints(req.existingLints, corrections) = <<>>
     THEN UNCHANGED <<tabLints, badge, tabMessages>>
     ELSE LET m == merged(req.existingLints, corrections)
          IN  /\ tabLints' = [t \in (DOMAIN tabLints) \cup {req.tabId} |->
                                IF t = req.tabId THEN m ELSE tabLints[t]]
              /\ badge' = [badge EXCEPT ![req.tabId] = Len(m)]
              /\ tabMessages' = Append(tabMessages,
                    [type |-> "ai-lints-update", tab |-> req.tabId, lints |-> m,
                     text |-> req.text, id |-> req.id])
  /\ UNCHANGED <<isEnabled, storedEnabled, ruleTable, requests, lastPass>>
  /\ UNCHANGED offscreenVars
  /\ UNCHANGED pageVars
  /\ UNCHANGED popupVars

\* what sendToOffscreen returns without corrections: the answer of
\* handleProofread when there is no proofreader or proofread() threw, and
\* the value of its own catch when the message to the offscreen document
\* failed
Unavailable ==
  { [available |-> FALSE, corrections |-> <<>>, failed |-> FALSE],
    [available |-> FALSE, corrections |-> <<>>, failed |-> TRUE] }

\* requestAIProofread with the stored lints of the tab dropped on its early
\* return
AIUnavailableDroppingLints(req, result) ==
  /\ req \in aiPending
  /\ ~result.available
  /\ aiPending' = aiPending \ {req}
  /\ aiLog' = aiLog \cup {[id |-> req.id, result |-> result]}
  /\ tabLints' = [t \in (DOMAIN tabLints) \ {req.tabId} |-> tabLints[t]]
  /\ UNCHANGED <<isEnabled, storedEnabled, ruleTable, badge, requests,
                 lastPass, tabMessages>>
  /\ UNCHANGED offscreenVars
  /\ UNCHANGED pageVars
  /\ UNCHANGED popupVars

\* requestAIProofread when sendToOffscreen returns { available: false }:
\* the early return
AIUnavailable(req, result) ==
  /\ req \in aiPending
  /\ ~result.available
  /\ aiPending' = aiPending \ {req}
  /\ aiLog' = aiLog \cup {[id |-> req.id, result |-> result]}
  /\ UNCHANGED <<isEnabled, storedEnabled, ruleTable, tabLints, badge, requests,
                 lastPass, tabMessages>>
  /\ UNCHANGED offscreenVars
  /\ UNCHANGED pageVars
  /\ UNCHANGED popupVars

\* handleMessage, case 'set-enabled'
SetEnabled(enabled) ==
  /\ enabled # isEnabled
  /\ isEnabled' = enabled
  /\ storedEnabled' = enabled
  /\ UNCHANGED <<ruleTable, tabLints, badge, requests, lastPass, aiPending, aiLog,
                 tabMessages>>
  /\ UNCHANGED offscreenVars
  /\ UNCHANGED pageVars
  /\ UNCHANGED popupVars

\* chrome.tabs.onRemoved
TabRemoved(tabId) ==
  /\ tabId \in DOMAIN tabLints
  /\ tabLints' = [t \in (DOMAIN tabLints) \ {tabId} |-> tabLints[t]]
  /\ UNCHANGED <<isEnabled, storedEnabled, ruleTable, badge, requests, lastPass,
                 aiPending, aiLog, tabMessages>>
  /\ UNCHANGED offscreenVars
  /\ UNCHANGED pageVars
  /\ UNCHANGED popupVars

\* the variables of the worker that ensureOffscreen leaves alone
lintVars == <<isEnabled, storedEnabled, ruleTable, tabLints, badge, requests,
              lastPass, aiPending, aiLog, tabMessages>>

\* ensureOffscreen after hasDocument has answered: what it does next
ensureOffscreenUnguarded(existing, creating) ==
  IF existing THEN "return" ELSE "create"

ensureOffscreenStep(existing, creating) ==
  IF existing THEN "return"
  ELSE IF creating # 0 THEN "await"
  ELSE "create"

\* sendToOffscreen calls ensureOffscreen, which calls
\* chrome.offscreen.hasDocument() and awaits the answer.
SendToOffscreen ==
  /\ Len(ensureCalls) < MaxCalls
  /\ ensureCalls' = Append(ensureCalls, [pc |-> "hasDocument", awaits |-> 0])
  /\ toBrowser' = Append(toBrowser, [api |-> "hasDocument", call |-> Len(ensureCalls) + 1,
                                     promise |-> 0])
  /\ UNCHANGED <<offscreenCreating, creations, toWorker, offscreenDoc>>
  /\ UNCHANGED lintVars
  /\ UNCHANGED pageVars
  /\ UNCHANGED popupVars

\* The browser handles the chrome.offscreen call sent first.  hasDocument
\* answers whether the extension has a document (either answer while the
\* document loads); createDocument starts a document, or rejects when the
\* extension has one already.
BrowserHandles ==
  /\ toBrowser # <<>>
  /\ toBrowser' = Tail(toBrowser)
  /\ LET call == Head(toBrowser)
     IN  IF call.api = "hasDocument"
         THEN /\ \E existing \in (IF offscreenDoc.state = "loading" THEN BOOLEAN
                                  ELSE {offscreenDoc.state = "loaded"}) :
                   toWorker' = Append(toWorker, [api |-> "hasDocument", call |-> call.call,
                                                 promise |-> 0, value |-> existing])
              /\ UNCHANGED offscreenDoc
         ELSE IF offscreenDoc.state = "none"
         THEN /\ offscreenDoc' = [state |-> "loading", promise |-> call.promise]
              /\ UNCHANGED toWorker
         ELSE /\ toWorker' = Append(toWorker, [api |-> "createDocument", call |-> 0,
                                                promise |-> call.promise, value |-> FALSE])
              /\ UNCHANGED offscreenDoc
  /\ UNCHANGED <<offscreenCreating, creations, ensureCalls>>
  /\ UNCHANGED lintVars
  /\ UNCHANGED pageVars
  /\ UNCHANGED popupVars

\* The document has loaded, or has failed to: the browser answers the
\* createDocument call.
DocumentLoads(ok) ==
  /\ offscreenDoc.state = "loading"
  /\ offscreenDoc' = IF ok THEN [offscreenDoc EXCEPT !.state = "loaded"]
                     ELSE [state |-> "none", promise |-> 0]
  /\ toWorker' = Append(toWorker, [api |-> "createDocument", call |-> 0,
                                   promise |-> offscreenDoc.promise, value |-> ok])
  /\ UNCHANGED <<offscreenCreating, creations, ensureCalls, toBrowser>>
  /\ UNCHANGED lintVars
  /\ UNCHANGED pageVars
  /\ UNCHANGED popupVars

\* The worker receives the answer sent first.  An answer of hasDocument
\* resumes ensureOffscreen up to its next await; an answer of createDocument
\* settles the promise.
WorkerReceives ==
  /\ toWorker # <<>>
  /\ toWorker' = Tail(toWorker)
  /\ LET answer == Head(toWorker)
         c == answer.call
         next == ensureOffscreenStep(answer.value, offscreenCreating)
         made == Len(creations) + 1
     IN  IF answer.api = "createDocument"
         THEN /\ creations' = [creations EXCEPT ![answer.promise] =
                                  IF answer.value THEN "fulfilled" ELSE "rejected"]
              /\ UNCHANGED <<offscreenCreating, ensureCalls, toBrowser>>
         ELSE IF next = "return"
         THEN /\ ensureCalls' = [ensureCalls EXCEPT ![c].pc = "returned"]
              /\ UNCHANGED <<offscreenCreating, creations, toBrowser>>
         ELSE IF next = "await"
         THEN /\ ensureCalls' = [ensureCalls EXCEPT ![c] = [pc |-> "awaitOther",
                                                            awaits |-> offscreenCreating]]
              /\ UNCHANGED <<offscreenCreating, creations, toBrowser>>
         ELSE /\ creations' = Append(creations, "pending")
              /\ offscreenCreating' = made
              /\ toBrowser' = Append(toBrowser, [api |-> "createDocument", call |-> c,
                                                 promise |-> made])
              /\ ensureCalls' = [ensureCalls EXCEPT ![c] = [pc |-> "awaitOwn",
                                                            awaits |-> made]]
  /\ UNCHANGED offscreenDoc
  /\ UNCHANGED lintVars
  /\ UNCHANGED pageVars
  /\ UNCHANGED popupVars

\* The promise a call of ensureOffscreen awaits has settled and the call
\* resumes: a rejection throws (sendToOffscreen answers { available:
\* false }); the call that made the promise sets offscreenCreating to null.
EnsureResumes(c) ==
  /\ c \in 1..Len(ensureCalls)
  /\ ensureCalls[c].pc \in {"awaitOther", "awaitOwn"}
  /\ creations[ensureCalls[c].awaits] # "pending"
  /\ IF creations[ensureCalls[c].awaits] = "rejected"
     THEN /\ ensureCalls' = [ensureCalls EXCEPT ![c].pc = "threw"]
          /\ UNCHANGED offscreenCreating
     ELSE /\ ensureCalls' = [ensureCalls EXCEPT ![c].pc = "returned"]
          /\ offscreenCreating' = IF ensureCalls[c].pc = "awaitOwn" THEN 0
                                  ELSE offscreenCreating
  /\ UNCHANGED <<creations, toBrowser, toWorker, offscreenDoc>>
  /\ UNCHANGED lintVars
  /\ UNCHANGED pageVars
  /\ UNCHANGED popupVars

OffscreenNext ==
  \/ SendToOffscreen
  \/ BrowserHandles
  \/ \E ok \in BOOLEAN : DocumentLoads(ok)
  \/ WorkerReceives
  \/ \E c \in 1..Len(ensureCalls) : EnsureResumes(c)

SWNext ==
  \/ \E tab \in Tabs, s \in Texts : LintMessage(tab, s)
  \/ \E id \in 1..Len(requests) : LintEngineFails(id)
  \/ \E id \in 1..Len(requests) :
        \E engineLints \in EngineAnswers(requests[id].text) : LintPass(id, engineLints)
  \/ \E req \in aiPending :
        \E corrections \in AICorrections(req.text) : requestAIProofread(req, corrections)
  \/ \E req \in aiPending, result \in Unavailable : AIUnavailable(req, result)
  \/ \E enabled \in BOOLEAN : SetEnabled(enabled)
  \/ \E tabId \in Tabs : TabRemoved(tabId)

Init == SWInit(RULES) /\ NoField

Next == SWNext

\* the worker as shipped
Spec == Init /\ [][Next]_vars

\* the worker's calls of sendToOffscreen and the browser
SpecOffscreen == Init /\ [][OffscreenNext]_vars

\* the worker rebuilt after an entry was added to the rule table
InitEdited == SWInit(RULES_EDITED) /\ NoField

SpecEdited == InitEdited /\ [][Next]_vars

\* the worker rebuilt after the entry for spaces at the end of a line was
\* added: the messages it receives and the passes it runs
InitSpaces == SWInit(RULES_SPACES) /\ NoField

SpacesNext ==
  \/ \E tab \in Tabs, s \in Texts : LintMessage(tab, s)
  \/ \E id \in 1..Len(requests) : LintEngineFails(id)
  \/ \E id \in 1..Len(requests) :
        \E engineLints \in EngineAnswers(requests[id].text) : LintPass(id, engineLints)
  \/ \E enabled \in BOOLEAN : SetEnabled(enabled)

SpecSpaces == InitSpaces /\ [][SpacesNext]_vars

\* ------------------------------------------------------------------------
\* Properties of the service worker
\* ------------------------------------------------------------------------

SpansOverlap(a, b) == a.span.start < b.span.end /\ a.span.end > b.span.start

PairwiseDisjoint(lints) ==
  \A i, j \in 1..Len(lints) : i # j => ~SpansOverlap(lints[i], lints[j])

Sources(lints) == {lints[i].source : i \in 1..Len(lints)}

Replied(id) == requests[id].status = "replied"

Stale(req) ==
  /\ lastPass[req.tabId] # req.id
  /\ requests[lastPass[req.tabId]].text # req.text

\* C2: when a newer lint pass for the same tab has run on a different text
\* before the AI result arrives, the result is discarded: the step that
\* consumes it neither replaces the lints stored for the tab nor sends an
\* 'ai-lints-update'.
C2_StaleAIResultDiscarded ==
  [][\A req \in aiPending :
        (Stale(req) /\ req \notin aiPending')
          => (tabLints' = tabLints /\ tabMessages' = tabMessages)]_vars

IsSubSeqOf(small, big) ==
  \E keep \in SUBSET (1..Len(big)) :
     small = SelectSeq([i \in 1..Len(big) |-> IF i \in keep THEN big[i] ELSE <<>>],
                       LAMBDA l : l # <<>>)

\* C8: the reply to a 'lint' request holds engine, pattern and clause lints
\* only and is sent while the AI proofread is still pending; an
\* 'ai-lints-update' holds every lint of that reply unchanged plus AI lints
\* only; and the step that delivers it starts no pass (no request is added
\* or changed, no pass is recorded).
C8_ReplyBeforeAI ==
  /\ \A req \in aiPending :
        /\ Replied(req.id)
        /\ requests[req.id].lints = req.existingLints
  /\ \A id \in 1..Len(requests) : "ai" \notin Sources(requests[id].lints)
  /\ \A k \in 1..Len(tabMessages) :
        LET m == tabMessages[k]
            reply == requests[m.id].lints
        IN  /\ Replied(m.id)
            /\ IsSubSeqOf(reply, m.lints)
            /\ SelectSeq(m.lints, LAMBDA l : l.source # "ai") = reply
            /\ Len(m.lints) > Len(reply)

C8_NoNewPass ==
  [][tabMessages' # tabMessages => (requests' = requests /\ lastPass' = lastPass)]_vars

C8_TwoPhase == []C8_ReplyBeforeAI /\ C8_NoNewPass

\* an update was delivered that holds a pattern lint of the reply and an AI lint
C8_Witness ==
  \E k \in 1..Len(tabMessages) :
     /\ {"pattern", "ai"} \subseteq Sources(tabMessages[k].lints)
     /\ requests[tabMessages[k].id].lints # <<>>

\* C9: when the engine fails, the request is answered with the lints that
\* the pattern rules and the clause detector find with no engine lints.
C9_PatternOnlyDegradation ==
  \A id \in 1..Len(requests) :
     requests[id].outcome = "engineFailed"
       => /\ Replied(id)
          /\ requests[id].lints = FastPass(ruleTable, requests[id].text, <<>>).allLints

NotThrowing(rules) == SelectSeq(rules, LAMBDA rule : ~rule.throws)

\* C10: when the callback of one rule throws, the reply holds what the pass
\* yields with that rule left out of the table: the engine's lints and the
\* lints of every other rule and of the clause detector.
C10_OnlyThrowingRuleSkipped ==
  \A id \in 1..Len(requests) :
     requests[id].outcome = "ruleThrew"
       => /\ Replied(id)
          /\ requests[id].lints =
               FastPass(NotThrowing(ruleTable), requests[id].text, requests[id].engine).allLints

\* the proofread calls that end in a step with nothing to merge: the
\* proofreader is unavailable, the message to it failed, or it sent no
\* corrections
EndedEmpty ==
  {e \in aiLog' \ aiLog : ~e.result.available \/ e.result.corrections = <<>>}

\* C11: a proofread call that ends with available = false, with a failed
\* message or with no corrections leaves the lints stored for the tabs and
\* the badge as they are, sends no update to a content script, and leaves
\* every lint request and its reply untouched.
C11_AIUnavailableIsNormal ==
  [][EndedEmpty # {}
       => /\ tabLints' = tabLints
          /\ badge' = badge
          /\ tabMessages' = tabMessages
          /\ requests' = requests
          /\ lastPass' = lastPass]_vars

\* one proofread call ended on a failed message and another on an answer
\* without corrections; the tab still holds the lints of its last pass
C11_Witness ==
  /\ \E e \in aiLog : e.result.failed
  /\ \E e \in aiLog : e.result.available /\ e.result.corrections = <<>>
  /\ tabMessages = <<>>
  /\ \A t \in Tabs : lastPass[t] # 0 =>
        /\ t \in DOMAIN tabLints
        /\ tabLints[t] = requests[lastPass[t]].lints
        /\ tabLints[t] # <<>>

\* The candidates of one pass in the acceptance order.  The matches of one
\* expression never overlap one another, so what a rule or a scan yields
\* over an empty occupied list is the list of all its candidates.
RECURSIVE RuleCandidates(_, _, _)
RuleCandidates(rules, k, s) ==
  IF k > Len(rules) THEN <<>>
  ELSE IF rules[k].enabled = FALSE THEN RuleCandidates(rules, k + 1, s)
  ELSE ScanRule(rules[k], s, 0, Pass(<<>>, <<>>)).results \o RuleCandidates(rules, k + 1, s)

Candidates(rules, s, engineLints) ==
  fixHarperSuggestions(engineLints)
    \o RuleCandidates(rules, 1, s)
    \o ScanClauses(s, 0, Pass(<<>>, <<>>)).results
    \o ScanImperatives(s, 0, Pass(<<>>, <<>>)).results

\* the candidates taken one after the other, each kept unless it overlaps
\* one kept before it
RECURSIVE Accept(_, _, _)
Accept(candidates, k, accepted) ==
  IF k > Len(candidates) THEN accepted
  ELSE IF \E i \in 1..Len(accepted) : SpansOverlap(accepted[i], candidates[k])
       THEN Accept(candidates, k + 1, accepted)
       ELSE Accept(candidates, k + 1, Append(accepted, candidates[k]))

\* the answer the offscreen document gave to the proofread call of a request
CorrectionsOf(id) == (CHOOSE e \in aiLog : e.id = id).result.corrections

\* the reply of every completed pass holds the accepted candidates of the
\* engine, the rules and the two scans
C12_FastPassAcceptance ==
  \A id \in 1..Len(requests) :
     requests[id].outcome = "linted"
       => requests[id].lints =
            sortByStart(Accept(Candidates(ruleTable, requests[id].text, requests[id].engine),
                               1, <<>>))

\* C12: a candidate lint is dropped exactly when it overlaps a span accepted
\* earlier in the acceptance order: engine lints, rules in table order,
\* the independent-clause scan, the imperative scan, then the AI lints.
\* Every reply and every 'ai-lints-update' holds exactly the candidates
\* accepted that way.
C12_DroppedIffOverlapsEarlier ==
  /\ C12_FastPassAcceptance
  /\ \A k \in 1..Len(tabMessages) :
        LET m == tabMessages[k]
        IN  m.lints =
              sortByStart(Accept(Candidates(ruleTable, m.text, requests[m.id].engine)
                                   \o CorrectionsOf(m.id), 1, <<>>))

\* ascending by span.start; of two lints with the same start the engine's
\* precedes the pattern's, and a lint of the fast pass precedes an AI lint
Ordered(lints) ==
  \A i, j \in 1..Len(lints) :
     i < j =>
       /\ lints[i].span.start <= lints[j].span.start
       /\ lints[i].span.start = lints[j].span.start
            => /\ ~(lints[i].source # "engine" /\ lints[j].source = "engine")
               /\ ~(lints[i].source = "ai" /\ lints[j].source # "ai")

\* C14: the list returned by a lint pass and the list delivered after an AI
\* merge are ordered by span.start ascending, with ties in the order engine,
\* pattern, AI.
C14_OrderedByStart ==
  /\ \A id \in 1..Len(requests) : Replied(id) => Ordered(requests[id].lints)
  /\ \A k \in 1..Len(tabMessages) : Ordered(tabMessages[k].lints)

\* a reply in which an engine lint and a pattern lint start at the same
\* offset, and an update in which a lint of the reply and an AI lint do
C14_Witness ==
  /\ \E id \in 1..Len(requests) :
        \E i, j \in 1..Len(requests[id].lints) :
           /\ i < j
           /\ requests[id].lints[i].span.start = requests[id].lints[j].span.start
           /\ requests[id].lints[i].source = "engine"
           /\ requests[id].lints[j].source = "pattern"
  /\ \E k \in 1..Len(tabMessages) :
        \E i, j \in 1..Len(tabMessages[k].lints) :
           /\ i < j
           /\ tabMessages[k].lints[i].span.start = tabMessages[k].lints[j].span.start
           /\ tabMessages[k].lints[i].source = "engine"
           /\ tabMessages[k].lints[j].source = "ai"

\* the passes that ran runCustomRules with an empty existing-lint list
RanOnEmpty == {id \in 1..Len(requests) :
                 /\ requests[id].outcome \in {"linted", "ruleThrew"}
                 /\ requests[id].engine = <<>>}

\* C15: two runs of runCustomRules on the same text with an empty
\* existing-lint list end the same way with identical lint lists, and no
\* expression of the rule table is left with a match position by a pass.
C15_RepeatedPassIdentical ==
  /\ \A k \in 1..Len(ruleTable) : ruleTable[k].lastIndex = 0
  /\ \A a, b \in RanOnEmpty :
        requests[a].text = requests[b].text
          => /\ requests[a].outcome = requests[b].outcome
             /\ requests[a].lints = requests[b].lints

\* two passes over the same text whose lints all come from runCustomRules
C15_Witness ==
  \E a, b \in RanOnEmpty :
     /\ a # b
     /\ requests[a].text = requests[b].text
     /\ requests[a].outcome = "linted"
     /\ requests[a].lints # <<>>
     /\ requests[a].lints = requests[b].lints

\* C16: an engine lint whose problem text, lower-cased, is a key of the
\* misspelling dictionary is returned with exactly one suggestion, the
\* canonical correction in the case pattern of the problem text.
C16_KnownMisspellingCaseMatched ==
  \A id \in 1..Len(requests) :
     requests[id].outcome = "linted" =>
       \A i \in 1..Len(requests[id].engine) :
          LET lint == requests[id].engine[i]
              problem == toLowerCase(lint.problemText)
          IN  problem \in COMMON_MISSPELLINGS_KEYS =>
                \E j \in 1..Len(requests[id].lints) :
                   /\ requests[id].lints[j].span = lint.span
                   /\ requests[id].lints[j].suggestions =
                        <<matchCase(COMMON_MISSPELLINGS(problem), lint.problemText)>>

\* C13: the list delivered after an AI merge, and stored for the tab, has
\* pairwise non-overlapping spans: an AI lint that overlaps an AI lint
\* accepted earlier in the same batch is dropped like one that overlaps an
\* engine or pattern lint.
C13_MergedSpansDisjoint ==
  /\ \A k \in 1..Len(tabMessages) : PairwiseDisjoint(tabMessages[k].lints)
  /\ \A t \in DOMAIN tabLints : PairwiseDisjoint(tabLints[t])

\* ------------------------------------------------------------------------
\* Content scripts: one tracked field, its user and the lint round trips
\* ------------------------------------------------------------------------

\* number of input events of the user in a behaviour
MaxInputs == 2

\* number of fix actions in a behaviour
MaxFixes == 1

\* number of clicks of the user in a behaviour
MaxClicks == 1

\* number of 'lint' messages that are rejected in a behaviour
MaxFailures == 1

\* number of answers to 'ai-improve' in a behaviour
MaxAIReplies == 1

\* number of texts the user pastes in a behaviour of the lint cache
MaxPastes == 52

\* number of 'lint' messages awaited when the user pastes a text
MaxInFlight == 2

\* LinterClient.lint: the cache holds at most this many texts
CACHE_LIMIT == 50

\* the characters the user types
Keys == {"x"}

T_iAm == <<"i", " ", "a", "m", " ", "h", "e", " ", "d", "o", "n", "'", "t", " ", "g", "o">>

NewDoc(children, caretNode, caretOffset) ==
  [dom |-> ensureContainer(children),
   caret |-> [node |-> caretNode, offset |-> caretOffset],
   detached |-> {},
   nextId |-> 20]

T_it == <<"i", "t">>
T_dontI == <<"d", "o", "n", "'", "t", ".", " ", "i", " ">>

\* the contenteditable elements of the page at attach time: a paragraph
\* followed by an empty line; a line with inline markup; two paragraphs
InitialDocs ==
  { NewDoc(<<Element("DIV", 2, "", <<TextNode(3, T_hi)>>),
             Element("DIV", 4, "", <<Element("BR", 5, "", <<>>)>>)>>, 3, 8),
    NewDoc(<<TextNode(2, SubSeq(T_iAm, 1, 5)),
             Element("B", 3, "", <<TextNode(4, SubSeq(T_iAm, 6, 13))>>),
             TextNode(5, SubSeq(T_iAm, 14, 16))>>, 5, 3),
    NewDoc(<<Element("DIV", 2, "", <<TextNode(3, T_it)>>),
             Element("DIV", 4, "", <<TextNode(5, T_dontI)>>)>>, 5, 9) }

PageInit ==
  \/ Attached("textarea", T_iAm, EmptyDoc)
  \/ \E d \in InitialDocs : Attached("ce", <<>>, d)

\* the field's text: element.value, or the flattened text of the element
PageText == IF kind = "textarea" THEN value ELSE buildTextMap(doc.dom).text

\* the replies of the worker to the pasted texts
PastedReplies == [text \in PastedTexts |->
                    {FastPassRaw(RULES, text, e).allLints : e \in EngineAnswers(text)}]

\* what the enabled service worker replies to 'lint' for a text: the sorted
\* lints of a pass
WorkerReplies(text) ==
  IF text \in PastedTexts THEN PastedReplies[text]
  ELSE {FastPassRaw(RULES, text, e).allLints : e \in EngineAnswers(text)}

\* the cache keeps the entry it has just put when it is full
cacheSetEvictingNewest(entries, text, lints) ==
  LET hit == {i \in 1..Len(entries) : entries[i].text = text}
      put == IF hit = {} THEN Append(entries, [text |-> text, lints |-> lints])
             ELSE [i \in 1..Len(entries) |->
                     IF i \in hit THEN [text |-> text, lints |-> lints] ELSE entries[i]]
  IN  IF Len(put) > CACHE_LIMIT THEN SubSeq(put, 1, CACHE_LIMIT) ELSE put

\* Map.prototype.set and the eviction of LinterClient.lint
cacheSet(entries, text, lints) ==
  LET hit == {i \in 1..Len(entries) : entries[i].text = text}
      put == IF hit = {} THEN Append(entries, [text |-> text, lints |-> lints])
             ELSE [i \in 1..Len(entries) |->
                     IF i \in hit THEN [text |-> text, lints |-> lints] ELSE entries[i]]
  IN  IF Len(put) > CACHE_LIMIT THEN Tail(put) ELSE put

cacheHas(entries, text) == \E i \in 1..Len(entries) : entries[i].text = text

cacheGet(entries, text) ==
  entries[CHOOSE i \in 1..Len(entries) : entries[i].text = text].lints

\* the loop without the test of _aiSentenceChecking
checkSentencesNotCached(sentences) == {s \in sentences : s \notin aiCache}

\* the loop of _checkSentencesWithAI / _doCheckSentencesWithAI: the
\* sentences it marks as in flight and sends 'ai-improve' for
checkSentencesWithAI(sentences) ==
  {s \in sentences : s \notin aiCache /\ s \notin aiChecking}

\* renderOverlay / renderUnderlines: the marks drawn, and the sentences
\* handed to _checkSentencesWithAI (at once for a textarea, after the
\* 2 s debounce for a contenteditable element, which draws nothing and
\* checks nothing while its node map is empty)
Render(text, lints, nodeMap) ==
  \E sentences \in {extractSentences(text, 0)} :
    IF kind = "textarea"
    THEN /\ rendered' = [text |-> text, lints |-> lints]
         /\ aiChecking' = aiChecking \cup checkSentencesWithAI(sentences)
         /\ aiRequests' = aiRequests (+) SetToBag(checkSentencesWithAI(sentences))
         /\ aiDebounce' = aiDebounce
    ELSE IF nodeMap = <<>>
    THEN /\ rendered' = [text |-> <<>>, lints |-> <<>>]
         /\ UNCHANGED <<aiChecking, aiRequests, aiDebounce>>
    ELSE /\ rendered' = [text |-> text, lints |-> lints]
         /\ aiChecking' = aiChecking
         /\ aiRequests' = aiRequests
         /\ aiDebounce' = [pending |-> TRUE, sentences |-> sentences]

\* runCheck after the await: the lints are stored and drawn
CompleteCheck(text, nodeMap, lints) ==
  /\ st' = IF kind = "textarea" THEN [st EXCEPT !.lints = lints]
           ELSE [lints |-> lints, text |-> text, nodeMap |-> nodeMap]
  /\ lintsOf' = [valid |-> TRUE, text |-> text]
  /\ Render(text, lints, nodeMap)

\* scheduleCheck(element)
scheduleCheck == debounceTimer' = TRUE

\* the caret capture of TabHint on input, keyup and mouseup
captureCaret(d) ==
  IF kind = "textarea" \/ d.caret = NoCaret
  THEN [doc |-> d, pos |-> "null"]
  ELSE LET read == readCaretNow(d.dom, d.caret, d.nextId)
       IN  [doc |-> [d EXCEPT !.dom = read.dom, !.caret = read.caret], pos |-> read.pos]

\* the text with a character typed at offset p
Typed(text, p, key) == SubSeq(text, 1, p) \o <<key>> \o SubSeq(text, p + 1, Len(text))

\* The user types a character into the field: the browser inserts it at
\* the caret and fires 'input' (scheduleCheck, caret capture).
InputEvent(key) ==
  /\ kind # "none"
  /\ nInputs < MaxInputs
  /\ IF kind = "textarea"
     THEN /\ value' = Typed(value, selectionStart, key)
          /\ selectionStart' = selectionStart + 1
          /\ caretPos' = "null"
          /\ doc' = doc
     ELSE /\ IsLive(doc, doc.caret.node)
          /\ LET data == [n \in {t.id : t \in {textNodes(doc.dom, 1)[i] :
                                        i \in 1..Len(textNodes(doc.dom, 1))}} |->
                            IF n = doc.caret.node
                            THEN Typed(textContent(doc.dom, n), doc.caret.offset, key)
                            ELSE textContent(doc.dom, n)]
                 edited == [doc EXCEPT
                              !.dom = mapText(doc.dom, 1, data),
                              !.caret.offset = @ + 1]
             IN  \E seen \in {captureCaret(edited)} :
                   /\ doc' = seen.doc
                   /\ caretPos' = seen.pos
          /\ UNCHANGED <<value, selectionStart>>
  /\ scheduleCheck
  /\ nInputs' = nInputs + 1
  /\ UNCHANGED <<kind, st, lintsOf, checks, cache, rendered, aiDebounce,
                 aiChecking, aiRequests, aiCache, lastFix, nClicks, nFixes, nFailures, nAIReplies>>
  /\ UNCHANGED swVars
  /\ UNCHANGED popupVars

UserInput(key) == InputEvent(key) /\ UNCHANGED clockVars

\* the places the user clicks: the start of the text, and in a
\* contenteditable element also behind the first character of the second
\* text node and the start of every block without text
CaretPlaces ==
  IF kind = "textarea"
  THEN {[node |-> 0, offset |-> 0]}
  ELSE LET all == textNodes(doc.dom, 1)
       IN  {[node |-> all[i].id, offset |-> 0] : i \in 1..Min(1, Len(all))}
             \cup {[node |-> all[i].id, offset |-> 1] :
                     i \in {j \in 2..Min(2, Len(all)) : all[j].text # <<>>}}
             \cup {[node |-> doc.dom[i].id, offset |-> 0] :
                     i \in {j \in 1..Len(doc.dom) :
                              /\ doc.dom[j].tag = "DIV"
                              /\ doc.dom[j].id # CONTAINER_ID
                              /\ lastTextNode(doc.dom[j]) = -1}}

\* The user clicks into the field: the browser moves the caret and fires
\* 'mouseup' (caret capture).
UserMovesCaret(place) ==
  /\ kind # "none"
  /\ nClicks < MaxClicks
  /\ nClicks' = nClicks + 1
  /\ IF kind = "textarea"
     THEN /\ selectionStart # place.offset
          /\ selectionStart' = place.offset
          /\ caretPos' = "null"
          /\ doc' = doc
     ELSE /\ doc.caret # place
          /\ \E seen \in {captureCaret([doc EXCEPT !.caret = place])} :
               /\ doc' = seen.doc
               /\ caretPos' = seen.pos
          /\ selectionStart' = selectionStart
  /\ UNCHANGED <<kind, value, st, lintsOf, debounceTimer, checks, cache,
                 rendered, aiDebounce, aiChecking, aiRequests, aiCache, lastFix, nInputs, nFixes, nFailures, nAIReplies>>
  /\ UNCHANGED clockVars
  /\ UNCHANGED swVars
  /\ UNCHANGED popupVars

\* an identity for a runCheck call that is not in use
NewSeq == CHOOSE n \in 1..(Cardinality(checks) + 1) : \A c \in checks : c.seq # n

\* runCheck up to the await of LinterClient.lint.
\* A text of fewer than two characters and a cached text are answered at
\* once; otherwise the message to the service worker is in flight.  The
\* worker's pass depends on the text of the message alone, so the lints it
\* will reply are recorded with the message.
runCheck ==
  /\ kind # "none"
  /\ \E map \in {IF kind = "textarea" THEN [text |-> value, nodeMap |-> <<>>]
                  ELSE buildTextMap(ensureContainer(doc.dom))} :
         IF Len(trim(map.text)) < 2
         THEN /\ CompleteCheck(map.text, map.nodeMap, <<>>)
              /\ UNCHANGED checks
         ELSE IF cacheHas(cache, map.text)
         THEN /\ CompleteCheck(map.text, map.nodeMap, cacheGet(cache, map.text))
              /\ UNCHANGED checks
         ELSE /\ \E lints \in (IF isEnabled THEN WorkerReplies(map.text) ELSE {<<>>}) :
                   checks' = checks \cup
                     {[seq |-> NewSeq, text |-> map.text, nodeMap |-> map.nodeMap,
                       reply |-> lints]}
              /\ UNCHANGED <<st, lintsOf, rendered, aiChecking, aiRequests, aiDebounce>>
  /\ UNCHANGED <<kind, value, selectionStart, doc, cache, aiCache, caretPos, lastFix,
                 nInputs, nClicks, nFixes, nFailures, nAIReplies>>
  /\ UNCHANGED swVars
  /\ UNCHANGED popupVars

\* The debounce timer fires: runCheck starts.
TimerFires ==
  /\ debounceTimer
  /\ debounceTimer' = FALSE
  /\ runCheck
  /\ UNCHANGED clockVars

\* The service worker's reply to a 'lint' message arrives: the lints are
\* cached, stored and drawn.
LintReply(check) ==
  /\ check \in checks
  /\ checks' = checks \ {check}
  /\ cache' = cacheSet(cache, check.text, check.reply)
  /\ CompleteCheck(check.text, check.nodeMap, check.reply)
  /\ UNCHANGED <<kind, value, selectionStart, doc, debounceTimer, aiCache,
                 caretPos, lastFix, nInputs, nClicks, nFixes, nFailures, nAIReplies>>
  /\ UNCHANGED clockVars
  /\ UNCHANGED swVars
  /\ UNCHANGED popupVars

\* chrome.runtime.sendMessage rejects: lint returns [] and caches nothing.
LintRequestFails(check) ==
  /\ check \in checks
  /\ nFailures < MaxFailures
  /\ nFailures' = nFailures + 1
  /\ checks' = checks \ {check}
  /\ CompleteCheck(check.text, check.nodeMap, <<>>)
  /\ UNCHANGED <<kind, value, selectionStart, doc, debounceTimer, cache,
                 aiCache, caretPos, lastFix, nInputs, nClicks, nFixes, nAIReplies>>
  /\ UNCHANGED clockVars
  /\ UNCHANGED swVars
  /\ UNCHANGED popupVars

\* The Tab key, or 'fix-all' from the popup: applyFixAll.  The handler of
\* Tab acts only when some stored lint has a suggestion.
ApplyFixAll ==
  /\ kind # "none"
  /\ nFixes < MaxFixes
  /\ \E i \in 1..Len(st.lints) : Len(st.lints[i].suggestions) > 0
  /\ IF kind = "textarea"
     THEN \E done \in {overlayApplyAllFixes(value, selectionStart, st.lints)} :
              /\ value' = done.value
              /\ selectionStart' = IF done.applied THEN Len(done.value) ELSE selectionStart
              /\ debounceTimer' = (debounceTimer \/ done.applied)
              /\ cache' = IF done.applied THEN <<>> ELSE cache
              /\ UNCHANGED <<doc, st, caretPos>>
     ELSE \E done \in {ceApplyAllFixes(doc, st)} : \E seen \in {captureCaret(done.doc)} :
              /\ doc' = IF done.changed THEN seen.doc ELSE done.doc
              /\ caretPos' = IF done.changed THEN seen.pos ELSE caretPos
              /\ st' = done.st
              /\ debounceTimer' = (debounceTimer \/ done.applied)
              /\ cache' = IF done.applied THEN <<>> ELSE cache
              /\ UNCHANGED <<value, selectionStart>>
  /\ nFixes' = nFixes + 1
  /\ lastFix' = [NoFix EXCEPT !.kind = "all"]
  /\ UNCHANGED <<kind, lintsOf, checks, rendered, aiDebounce, aiChecking, aiRequests,
                 aiCache, nInputs, nClicks, nFailures, nAIReplies>>
  /\ UNCHANGED clockVars
  /\ UNCHANGED swVars
  /\ UNCHANGED popupVars

\* 'fix-single' from the popup: applyFixByIndex(lintIndex, suggestionIndex),
\* both counted from 0.
applyFixByIndex(lintIndex, suggestionIndex) ==
  /\ kind # "none"
  /\ nFixes < MaxFixes
  /\ lintIndex < Len(st.lints)
  /\ Len(st.lints[lintIndex + 1].suggestions) > 0
  /\ LET lint == st.lints[lintIndex + 1]
         suggestion == IF suggestionIndex < Len(lint.suggestions)
                       THEN lint.suggestions[suggestionIndex + 1]
                       ELSE lint.suggestions[1]
     IN  /\ lastFix' = [kind |-> "single", span |-> lint.span, replacement |-> suggestion]
         /\ IF kind = "textarea"
            THEN /\ value' = overlayApplySingleFix(value, lint, suggestion)
                 /\ selectionStart' = Len(value')
                 /\ UNCHANGED <<doc, st, caretPos>>
            ELSE \E done \in {applyRangedFix(doc, st, lint, suggestion)} :
                 \E seen \in {captureCaret(done.doc)} :
                     /\ doc' = IF done.changed THEN seen.doc ELSE done.doc
                     /\ caretPos' = IF done.changed THEN seen.pos ELSE caretPos
                     /\ st' = done.st
                     /\ UNCHANGED <<value, selectionStart>>
  /\ cache' = <<>>
  /\ scheduleCheck
  /\ nFixes' = nFixes + 1
  /\ UNCHANGED <<kind, lintsOf, checks, rendered, aiDebounce, aiChecking, aiRequests,
                 aiCache, nInputs, nClicks, nFailures, nAIReplies>>
  /\ UNCHANGED clockVars
  /\ UNCHANGED swVars

\* 'fix-single' reaches the content script with indices of any kind
ApplySingleFix(lintIndex, suggestionIndex) ==
  /\ applyFixByIndex(lintIndex, suggestionIndex)
  /\ UNCHANGED popupVars

\* The 2 s timer of _checkSentencesWithAI fires: _doCheckSentencesWithAI.
AITimerFires ==
  /\ kind = "ce"
  /\ aiDebounce.pending
  /\ aiDebounce' = [pending |-> FALSE, sentences |-> {}]
  /\ aiChecking' = aiChecking \cup checkSentencesWithAI(aiDebounce.sentences)
  /\ aiRequests' = aiRequests (+) SetToBag(checkSentencesWithAI(aiDebounce.sentences))
  /\ UNCHANGED <<kind, value, selectionStart, doc, st, lintsOf, debounceTimer, checks,
                 cache, rendered, aiCache, caretPos, lastFix, nInputs, nClicks, nFixes, nFailures, nAIReplies>>
  /\ UNCHANGED clockVars
  /\ UNCHANGED swVars
  /\ UNCHANGED popupVars

\* how an 'ai-improve' message settles: with a different sentence, with
\* the same sentence, with available: false, or by rejection
AIOutcomes == {"improved", "unchanged", "unavailable", "rejected"}

\* An 'ai-improve' message for a sentence settles: the callbacks of then
\* and catch delete the mark of the sentence; an improvement is cached and
\* the marks redrawn.
AISentenceReply(sentence, outcome) ==
  /\ BagIn(sentence, aiRequests)
  /\ nAIReplies < MaxAIReplies
  /\ nAIReplies' = nAIReplies + 1
  /\ aiCache' = IF outcome = "improved" THEN aiCache \cup {sentence} ELSE aiCache
  /\ IF outcome # "improved"
     THEN /\ aiChecking' = aiChecking \ {sentence}
          /\ aiRequests' = aiRequests (-) SetToBag({sentence})
          /\ UNCHANGED <<rendered, aiDebounce>>
     ELSE \E text \in {IF kind = "textarea" THEN value ELSE st.text} :
          \E sentences \in {extractSentences(text, 0)} :
          LET fresh == {s \in sentences : s \notin aiCache' /\ s \notin aiChecking}
          IN  IF kind = "textarea"
              THEN /\ rendered' = [text |-> text, lints |-> st.lints]
                   /\ aiChecking' = (aiChecking \ {sentence}) \cup fresh
                   /\ aiRequests' = (aiRequests (-) SetToBag({sentence})) (+) SetToBag(fresh)
                   /\ aiDebounce' = aiDebounce
              ELSE /\ aiChecking' = aiChecking \ {sentence}
                   /\ aiRequests' = aiRequests (-) SetToBag({sentence})
                   /\ IF st.nodeMap = <<>>
                      THEN /\ rendered' = [text |-> <<>>, lints |-> <<>>]
                           /\ aiDebounce' = aiDebounce
                      ELSE /\ rendered' = [text |-> text, lints |-> st.lints]
                           /\ aiDebounce' = [pending |-> TRUE, sentences |-> sentences]
  /\ UNCHANGED <<kind, value, selectionStart, doc, st, lintsOf, debounceTimer, checks,
                 cache, caretPos, lastFix, nInputs, nClicks, nFixes, nFailures>>
  /\ UNCHANGED clockVars
  /\ UNCHANGED swVars
  /\ UNCHANGED popupVars

PageNext ==
  \/ \E key \in Keys : UserInput(key)
  \/ \E place \in CaretPlaces : UserMovesCaret(place)
  \/ TimerFires
  \/ \E check \in checks : LintReply(check)
  \/ \E check \in checks : LintRequestFails(check)
  \/ ApplyFixAll
  \/ \E lintIndex \in 0..1, suggestionIndex \in 0..1 : ApplySingleFix(lintIndex, suggestionIndex)
  \/ AITimerFires
  \/ \E sentence \in BagToSet(aiRequests), outcome \in AIOutcomes :
        AISentenceReply(sentence, outcome)

InitPage == SWInit(RULES) /\ PageInit

\* the number of a pasted text, 0 for any other text
PastedIndex(text) ==
  IF text \in PastedTexts
  THEN CHOOSE n \in 1..(Len(PasteLetters) * Len(PasteLetters)) : PastedText(n) = text
  ELSE 0

\* the texts the user pastes next: the first text that has not been in the
\* cache so far, and once the cache is full also the text that has been in
\* it longest and the text before that one
NextPastes ==
  LET cached == {PastedIndex(cache[i].text) : i \in 1..Len(cache)} \cup {0}
      new == 1 + CHOOSE n \in cached : \A k \in cached : k <= n
      oldest == PastedIndex(cache[1].text)
  IN  {PastedText(new)} \cup
        IF Len(cache) < CACHE_LIMIT THEN {}
        ELSE {PastedText(n) : n \in {oldest, oldest - 1} \ {0}}

\* The user replaces the text of the textarea by a pasted text while no
\* check of another text is awaited: the browser fires 'input'
\* (scheduleCheck).
UserPastes(text) ==
  /\ kind = "textarea"
  /\ nInputs < MaxPastes
  /\ Cardinality(checks) < MaxInFlight
  /\ \A c \in checks : c.text = text
  /\ value' = text
  /\ selectionStart' = Len(text)
  /\ caretPos' = "null"
  /\ scheduleCheck
  /\ nInputs' = nInputs + 1
  /\ UNCHANGED <<kind, doc, st, lintsOf, checks, cache, rendered, aiDebounce,
                 aiChecking, aiRequests, aiCache, lastFix, nClicks, nFixes, nFailures, nAIReplies>>
  /\ UNCHANGED clockVars
  /\ UNCHANGED swVars
  /\ UNCHANGED popupVars

\* number of child nodes of the elements whose text is flattened
MaxNodes == 3

\* the highest index of a lint, and of a suggestion, the user clicks in the
\* popup
MaxShown == 3

T_ab == <<"a", "b">>

\* The child nodes a page puts into a contenteditable element, with their
\* ids from id on: text, an empty text node, a line break, blocks with and
\* without text, a custom element (a web component), inline markup, a
\* custom element inside inline markup, a block that holds a line break, a
\* block that holds a block and text, and text that ends with a newline
\* character of its own.
ChildNodes(id) ==
  << TextNode(id, T_ab),
     TextNode(id, <<>>),
     Element("BR", id, "", <<>>),
     Element("DIV", id, "", <<TextNode(id + 1, T_ab)>>),
     Element("DIV", id, "", <<>>),
     Element("SHREDDIT-COMPOSER", id, "", <<TextNode(id + 1, T_ab)>>),
     Element("SPAN", id, "", <<TextNode(id + 1, T_ab)>>),
     Element("SPAN", id, "", <<Element("SHREDDIT-COMPOSER", id + 1, "", <<TextNode(id + 2, T_ab)>>)>>),
     Element("DIV", id, "", <<Element("BR", id + 1, "", <<>>)>>),
     Element("DIV", id, "", <<Element("P", id + 1, "", <<TextNode(id + 2, T_ab)>>),
                              TextNode(id + 3, T_ab)>>),
     TextNode(id, <<"a", "\n">>) >>

\* the contenteditable elements with up to MaxNodes of these child nodes
FlattenDocs ==
  LET Choices == UNION {[1..n -> 1..Len(ChildNodes(0))] : n \in 1..MaxNodes}
  IN  {NewDoc([p \in DOMAIN f |-> ChildNodes(10 * p)[f[p]]], -1, 0) : f \in Choices}

\* A call of buildTextMap(element), as at the start of runCheck and of every
\* round of the fix loop: the text and the node map are kept in the state.
BuildsTextMap ==
  /\ kind = "ce"
  /\ \E map \in {buildTextMap(ensureContainer(doc.dom))} :
       st' = [st EXCEPT !.text = map.text, !.nodeMap = map.nodeMap]
  /\ UNCHANGED <<kind, value, selectionStart, doc, lintsOf, debounceTimer, checks,
                 cache, rendered, aiDebounce, aiChecking, aiRequests, aiCache, caretPos,
                 lastFix, nInputs, nClicks, nFixes, nFailures, nAIReplies>>
  /\ UNCHANGED clockVars
  /\ UNCHANGED swVars
  /\ UNCHANGED popupVars

InitFlatten == SWInit(RULES) /\ \E d \in FlattenDocs : Attached("ce", <<>>, d)

\* a contenteditable element whose text is flattened
SpecFlatten == InitFlatten /\ [][BuildsTextMap]_vars

\* a timer that is not cleared stays pending
keepTimeout(timers) == timers

\* clearTimeout(state.debounceTimer): the timer set last is pending no more
clearTimeout(timers) ==
  IF timers = <<>> THEN timers ELSE SubSeq(timers, 1, Len(timers) - 1)

\* setTimeout(callback, delay)
setTimeout(timers, delay) == Append(timers, delay)

\* the amounts of time that pass between two events
TimeSteps == {DEBOUNCE_MS \div 3, DEBOUNCE_MS}

\* The user types a character, with the timers of scheduleCheck kept.
TimedInput(key) ==
  /\ InputEvent(key)
  /\ timerDue' = setTimeout(clearTimeout(timerDue), DEBOUNCE_MS)
  /\ sinceInput' = 0

\* Time passes, up to the moment the next timer is due.
TimePasses(ms) ==
  /\ timerDue # <<>> \/ sinceInput < DEBOUNCE_MS
  /\ \A i \in 1..Len(timerDue) : timerDue[i] >= ms
  /\ timerDue' = [i \in 1..Len(timerDue) |-> timerDue[i] - ms]
  /\ sinceInput' = Min(DEBOUNCE_MS, sinceInput + ms)
  /\ UNCHANGED <<kind, value, selectionStart, doc, st, lintsOf, debounceTimer, checks,
                 cache, rendered, aiDebounce, aiChecking, aiRequests, aiCache, caretPos,
                 lastFix, nInputs, nClicks, nFixes, nFailures, nAIReplies>>
  /\ UNCHANGED swVars
  /\ UNCHANGED popupVars

\* A timer of scheduleCheck is due: its callback runs runCheck.
TimedTimerFires ==
  /\ \E i \in 1..Len(timerDue) :
       /\ timerDue[i] = 0
       /\ timerDue' = SubSeq(timerDue, 1, i - 1) \o SubSeq(timerDue, i + 1, Len(timerDue))
  /\ debounceTimer' = (timerDue' # <<>>)
  /\ sinceInput' = sinceInput
  /\ runCheck

DebounceNext ==
  \/ \E key \in Keys : TimedInput(key)
  \/ \E ms \in TimeSteps : TimePasses(ms)
  \/ TimedTimerFires
  \/ \E check \in checks : LintReply(check)
  \/ \E check \in checks : LintRequestFails(check)

\* a page with one tracked field, its user and the clock
SpecDebounce == InitPage /\ [][DebounceNext]_vars

CacheNext ==
  \/ \E text \in NextPastes : UserPastes(text)
  \/ TimerFires
  \/ \E check \in checks : LintReply(check)
  \/ \E check \in checks : LintRequestFails(check)

InitCache == SWInit(RULES) /\ Attached("textarea", <<>>, EmptyDoc)

\* a page with one textarea whose user pastes one text after the other
SpecCache == InitCache /\ [][CacheNext]_vars

\* the popup's switch is flipped while the user pastes the same two texts
\* again and again
ToggleNext ==
  \/ \E text \in {PastedText(1), PastedText(2)} : UserPastes(text)
  \/ TimerFires
  \/ \E check \in checks : LintReply(check)
  \/ \E enabled \in BOOLEAN : SetEnabled(enabled)

\* a page with one textarea and the popup's switch
SpecToggle == InitCache /\ [][ToggleNext]_vars

\* runCheck of the field sends 'lint' with the field's text, which is not in
\* LinterClient.cache, and handleMessage of the worker starts.
FieldLint(tab) ==
  /\ kind = "textarea"
  /\ value \in Texts
  /\ ~cacheHas(cache, value)
  /\ LintMessage(tab, value)

\* The reply of the worker to request id reaches runCheck of the field: the
\* lints are cached, stored and drawn.
FieldReceivesReply(id) ==
  /\ id \in 1..Len(requests)
  /\ requests[id].status = "replied"
  /\ requests[id].text = value
  /\ ~cacheHas(cache, value)
  /\ cache' = cacheSet(cache, value, requests[id].lints)
  /\ CompleteCheck(value, <<>>, requests[id].lints)
  /\ UNCHANGED <<kind, value, selectionStart, doc, debounceTimer, checks, aiCache,
                 caretPos, lastFix, nInputs, nClicks, nFixes, nFailures, nAIReplies>>
  /\ UNCHANGED clockVars
  /\ UNCHANGED swVars
  /\ UNCHANGED popupVars

\* The popup is opened on a tab: it asks the worker for the stored lints of
\* the tab ('get-lints') and lists them.
PopupOpens(tabId) ==
  /\ ~popup.open
  /\ popup' = [open |-> TRUE, tabId |-> tabId,
               lints |-> IF tabId \in DOMAIN tabLints THEN tabLints[tabId] ELSE <<>>,
               sent |-> <<>>]
  /\ UNCHANGED swVars
  /\ UNCHANGED pageVars

\* The user clicks the button of suggestion suggIdx of the lint listed at
\* index: the popup sends 'fix-single' to the tab.
PopupClicksFix(index, suggIdx) ==
  /\ popup.open
  /\ popup.sent = <<>>
  /\ nFixes < MaxFixes
  /\ index < Len(popup.lints)
  /\ suggIdx < Len(popup.lints[index + 1].suggestions)
  /\ popup' = [popup EXCEPT !.sent = <<index, suggIdx>>]
  /\ UNCHANGED swVars
  /\ UNCHANGED pageVars

\* 'fix-single' reaches the content script: applyFixByIndex, which returns
\* early when the element state has no lint with suggestions at the index;
\* the popup closes itself.
FixSingleArrives ==
  /\ popup.sent # <<>>
  /\ LET lintIndex == popup.sent[1]
         suggestionIndex == popup.sent[2]
     IN  IF /\ kind # "none"
            /\ lintIndex < Len(st.lints)
            /\ Len(st.lints[lintIndex + 1].suggestions) > 0
         THEN applyFixByIndex(lintIndex, suggestionIndex)
         ELSE UNCHANGED swVars /\ UNCHANGED pageVars
  /\ popup' = NoPopup

PopupNext ==
  \/ \E tab \in Tabs : FieldLint(tab)
  \/ \E id \in 1..Len(requests) :
        \E engineLints \in EngineAnswers(requests[id].text) : LintPass(id, engineLints)
  \/ \E req \in aiPending :
        \E corrections \in AICorrections(req.text) : requestAIProofread(req, corrections)
  \/ \E req \in aiPending, result \in Unavailable : AIUnavailable(req, result)
  \/ \E id \in 1..Len(requests) : FieldReceivesReply(id)
  \/ \E tabId \in Tabs : PopupOpens(tabId)
  \/ \E index \in 0..MaxShown, suggIdx \in 0..MaxShown : PopupClicksFix(index, suggIdx)
  \/ FixSingleArrives

InitPopup == SWInit(RULES) /\ \E s \in Texts : Attached("textarea", s, EmptyDoc)

\* a tab with one textarea, the worker, and the popup
SpecPopup == InitPopup /\ [][PopupNext]_vars

\* a page with one tracked field
SpecPage == InitPage /\ [][PageNext]_vars

\* ------------------------------------------------------------------------
\* Properties of the content scripts
\* ------------------------------------------------------------------------

\* no check is scheduled or in flight
Quiescent == ~debounceTimer /\ checks = {}

\* the stored lints were computed on the field's current text
LintsAreCurrent == lintsOf.valid /\ lintsOf.text = PageText

\* a fix action has just changed the field's text
FixChangedText == nFixes' # nFixes /\ PageText' # PageText

\* text[0:start] + r + text[end:]
Replaced(text, span, r) ==
  SubSeq(text, 1, span.start) \o r \o SubSeq(text, span.end + 1, Len(text))

\* a span of the text that crosses no newline
NonCrossing(text, span) ==
  /\ 0 <= span.start
  /\ span.start < span.end
  /\ span.end <= Len(text)
  /\ \A p \in (span.start + 1)..span.end : text[p] # "\n"

\* C3: once the checks of a field have all completed (none is scheduled
\* or in flight), the lints stored for the field are those of a check of
\* the field's current text, never those of a superseded snapshot.
C3_OlderResultDropped ==
  (kind # "none" /\ Quiescent /\ lintsOf.valid) => lintsOf.text = PageText

\* C4: a fix changes the text only with lints that were computed on the
\* text the field has when the fix is applied.
C4_FixUsesCurrentSpans == [][FixChangedText => LintsAreCurrent]_vars

\* C5: for a lint computed on the field's current text whose span crosses
\* no newline, the text after applySingleFix with replacement r is
\* text[0:start] + r + text[end:].
C5_SingleFixRoundTrip ==
  [][(/\ nFixes' # nFixes
      /\ lastFix'.kind = "single"
      /\ LintsAreCurrent
      /\ NonCrossing(PageText, lastFix'.span))
       => PageText' = Replaced(PageText, lastFix'.span, lastFix'.replacement)]_vars

\* a single fix was applied with current lints in a contenteditable element
\* whose lint starts in one text node and ends in another
C5_Witness ==
  /\ kind = "ce"
  /\ nFixes = 1
  /\ lastFix.kind = "single"
  /\ lintsOf.valid
  /\ NonCrossing(lintsOf.text, lastFix.span)
  /\ PageText = Replaced(lintsOf.text, lastFix.span, lastFix.replacement)
  /\ PageText # lintsOf.text
  /\ findNodeAtOffset(buildTextMap(doc.dom).nodeMap, lastFix.span.start).node = 2
  /\ lastFix.span.start = 5

\* the lints a batch fixes, in ascending order of span.start
Batch ==
  sortByStart(
    IF kind = "textarea"
    THEN SelectSeq(st.lints, LAMBDA l :
           /\ Len(l.suggestions) > 0
           /\ l.span.start >= getParagraphRange(value, selectionStart).start
           /\ l.span.end <= getParagraphRange(value, selectionStart).end)
    ELSE ceFixable(doc, st))

\* The fixes of a batch applied one at a time in ascending order with
\* applySingleFix, each span moved by the growth of the text before it: the
\* field's text at the end.
RECURSIVE OneAtATime(_, _, _, _, _, _)
OneAtATime(text, d, state, fixes, k, delta) ==
  IF k > Len(fixes) THEN text
  ELSE LET lint == [fixes[k] EXCEPT !.span = [start |-> @.start + delta, end |-> @.end + delta]]
           r == lint.suggestions[1]
           grown == delta + Len(r) - (lint.span.end - lint.span.start)
           ce(done) == OneAtATime(buildTextMap(done.doc.dom).text, done.doc, done.st,
                                  fixes, k + 1, grown)
       IN  IF kind = "textarea"
           THEN CHOOSE t \in {OneAtATime(next, d, state, fixes, k + 1, grown) :
                                next \in {overlayApplySingleFix(text, lint, r)}} : TRUE
           ELSE CHOOSE t \in {ce(done) : done \in {applyRangedFix(d, state, lint, r)}} : TRUE

\* C6: a batch of fixes with current, pairwise non-overlapping spans leaves
\* the same text as the same fixes applied one at a time with the text map
\* rebuilt and the offsets re-derived between the applications.
C6_BatchEqualsOneAtATime ==
  [][(/\ nFixes' # nFixes
      /\ lastFix'.kind = "all"
      /\ LintsAreCurrent
      /\ PairwiseDisjoint(Batch))
       => PageText' = OneAtATime(PageText, doc, st, Batch, 1, 0)]_vars

\* the field's text as the page holds it: the value of a textarea; the
\* flattened text and the data of all text nodes of a contenteditable
\* element
FieldText ==
  IF kind = "textarea" THEN [flat |-> value, raw |-> value]
  ELSE [flat |-> buildTextMap(doc.dom).text, raw |-> rootTextContent(doc.dom)]

\* C7: the text of the field changes only in a step of user input or of a
\* fix action; lint passes, sentence checks, drawing, caret capture and the
\* cache leave it as it was.
C7_TextChangesOnlyByInputOrFix ==
  [][FieldText' # FieldText => (nInputs' # nInputs \/ nFixes' # nFixes)]_vars

\* the caret was captured on an empty line through the temporary span, a
\* lint pass has completed, and the field holds the text the user typed
C7_Witness ==
  /\ kind = "ce"
  /\ caretPos = "span"
  /\ lintsOf.valid
  /\ nInputs = 1
  /\ nFixes = 0
  /\ FieldText.flat = lintsOf.text
  /\ ZWSP \notin {FieldText.raw[i] : i \in 1..Len(FieldText.raw)}

\* the span of a lint holds a newline of the text
CrossesBoundary(text, span) ==
  includes(substring(text, span.start, span.end), <<"\n">>)

\* every stored lint that has a suggestion spans a newline of the text
OnlyCrossingFixes ==
  \A i \in 1..Len(st.lints) :
    Len(st.lints[i].suggestions) > 0 => CrossesBoundary(PageText, st.lints[i].span)

\* C17: in a contenteditable element no fix is applied whose span holds
\* the newline between two blocks: a single fix of such a lint, and a batch
\* whose fixes all are of such lints, leave the text of the field as it was.
C17_NoFixAcrossBlocks ==
  [][(/\ kind = "ce"
      /\ nFixes' # nFixes
      /\ LintsAreCurrent
      /\ \/ lastFix'.kind = "single" /\ CrossesBoundary(PageText, lastFix'.span)
         \/ lastFix'.kind = "all" /\ OnlyCrossingFixes)
       => FieldText' = FieldText]_vars

\* the offset of the cursor in the field's text as applyAllFixes reads it
CursorOffset ==
  IF kind = "textarea" THEN selectionStart
  ELSE getCursorOffset(doc.dom, doc.caret, st.nodeMap)

\* the text before position p and the text from position p on
Before(text, p) == SubSeq(text, 1, p)
After(text, p) == SubSeq(text, p + 1, Len(text))

\* C18: a batch (Tab) run with the lints of the current text and the cursor
\* in the text leaves every character outside the cursor's paragraph as it
\* was: the text before the start of the paragraph and the text after its
\* end are the same before and after the batch.
C18_BatchStaysInParagraph ==
  [][(/\ nFixes' # nFixes
      /\ lastFix'.kind = "all"
      /\ LintsAreCurrent
      /\ CursorOffset >= 0)
       => LET para == getParagraphRange(PageText, CursorOffset)
              grown == Len(PageText') - Len(PageText)
          IN  /\ Len(PageText') >= para.start + Len(PageText) - para.end
              /\ Before(PageText', para.start) = Before(PageText, para.start)
              /\ After(PageText', para.end + grown) = After(PageText, para.end)]_vars

\* The fixes of a batch tried one after the other on the text: a fix whose
\* problem text is found replaces the occurrence found, a fix whose problem
\* text is not found changes nothing, and the next fix is tried.
RECURSIVE EveryFixAttempted(_, _, _)
EveryFixAttempted(text, fixes, k) ==
  IF k > Len(fixes) THEN text
  ELSE LET idx == locateProblem(text, fixes[k])
           span == [start |-> idx, end |-> idx + Len(fixes[k].problem)]
       IN  EveryFixAttempted(
             IF idx = -1 THEN text ELSE Replaced(text, span, fixes[k].replacement),
             fixes, k + 1)

Answered(c) == c \in checks /\ checks' = checks \ {c} /\ nFailures' = nFailures

\* the debounce timer has just fired on a text of two characters or more
\* and no message was sent
AnsweredFromCache ==
  debounceTimer /\ ~debounceTimer' /\ checks' = checks /\ Len(trim(PageText)) >= 2

AISettled == nAIReplies' = nAIReplies + 1

\* C37: a handler has at most one 'ai-improve' message in flight for a
\* sentence text; a sentence is marked as in flight exactly while its
\* message is in flight, so the mark is removed when the message settles,
\* whatever the outcome; and no message is sent for a sentence whose
\* result is cached.
C37_OneAIRequestPerSentence ==
  /\ [](/\ \A s \in BagToSet(aiRequests) : CopiesIn(s, aiRequests) <= 1
        /\ aiChecking = BagToSet(aiRequests))
  /\ [][/\ \A s \in BagToSet(aiRequests') :
             CopiesIn(s, aiRequests') > CopiesIn(s, aiRequests) =>
               s \notin aiCache /\ s \notin aiCache'
        /\ AISettled =>
             \E s \in BagToSet(aiRequests) :
               /\ CopiesIn(s, aiRequests') < CopiesIn(s, aiRequests)
               /\ s \notin aiChecking']_vars

\* the message for the sentence of the textarea has settled with an
\* improvement, which is cached; the marks were drawn again for the same
\* text, and no message was sent for the sentence again
C37_Witness ==
  /\ kind = "textarea"
  /\ nAIReplies = 1
  /\ rendered.text = value
  /\ \E s \in aiCache : s \in extractSentences(value, 0)
  /\ aiChecking = {}
  /\ aiRequests = EmptyBag

\* the field has received and stored the reply of the last pass of the tab
FieldUpToDate(tabId) ==
  /\ lastPass[tabId] # 0
  /\ requests[lastPass[tabId]].text = value
  /\ lintsOf = [valid |-> TRUE, text |-> value]
  /\ st.lints = requests[lastPass[tabId]].lints

\* C31: when 'fix-single' reaches a field that holds the lints of the last
\* pass of the tab, the lint at the index of the message in the lints of the
\* element state is the lint the popup listed at that index.
C31_FixSingleHitsShownLint ==
  [][(popup.sent # <<>> /\ popup'.sent = <<>> /\ FieldUpToDate(popup.tabId)) =>
       LET lintIndex == popup.sent[1]
       IN  /\ lintIndex < Len(st.lints)
           /\ st.lints[lintIndex + 1] = popup.lints[lintIndex + 1]]_vars

\* C33: createDocument is called only when the extension has no offscreen
\* document, none is loading and no promise of an earlier createDocument is
\* pending; at most one createDocument call is ever made and at most one
\* document is created.
C33_SingleOffscreenDocument ==
  /\ [](Cardinality({k \in 1..Len(creations) : creations[k] = "fulfilled"}) <= 1)
  /\ [][Len(creations') > Len(creations) =>
          /\ offscreenDoc.state = "none"
          /\ \A k \in 1..Len(creations) : creations[k] # "pending"
          /\ \A i \in 1..Len(toBrowser) : toBrowser[i].api # "createDocument"]_vars

\* three calls have returned: one created the document, one found
\* offscreenCreating set and awaited that promise, and one was told by
\* hasDocument that the document exists
C33_Witness ==
  /\ Len(ensureCalls) = 3
  /\ \A c \in 1..3 : ensureCalls[c].pc = "returned"
  /\ \E c \in 1..3 : ensureCalls[c].awaits = 0
  /\ Cardinality({c \in 1..3 : ensureCalls[c].awaits = 1}) = 2
  /\ creations = <<"fulfilled">>
  /\ offscreenDoc.state = "loaded"
  /\ offscreenCreating = 0

\* C35: once the worker is enabled again, a lint of a text is not answered
\* from LinterClient.cache with the empty list the disabled worker replied:
\* the lints a call returns while the worker is enabled are lints the
\* enabled worker computes for the text.
C35_FreshLintsAfterReenable ==
  [][(isEnabled /\ AnsweredFromCache) => st'.lints \in WorkerReplies(PageText)]_vars

\* a timer of scheduleCheck has just run runCheck
CheckStarted == Len(timerDue') < Len(timerDue)

\* C21: a tracked element has at most one pending timer of scheduleCheck;
\* runCheck starts only when the debounce delay has passed since the last
\* input event, and the text it sends or stores lints for is the text the
\* field holds at that moment.
C21_OneCheckAfterQuietWindow ==
  /\ [](Len(timerDue) <= 1)
  /\ [][CheckStarted =>
          /\ sinceInput = DEBOUNCE_MS
          /\ \A c \in checks' \ checks : c.text = PageText
          /\ checks' = checks => lintsOf' = [valid |-> TRUE, text |-> PageText]]_vars

\* the user has typed twice, the second time before the timer of the first
\* input was due; one check has started, 300 ms after the second input and
\* on the text with both characters, and none for the text in between
C21_Witness ==
  /\ nInputs = 2
  /\ timerDue = <<>>
  /\ sinceInput = DEBOUNCE_MS
  /\ ~lintsOf.valid
  /\ nFailures = 0
  /\ Cardinality(checks) = 1
  /\ \A c \in checks : c.text = PageText

\* a 'lint' message has just been received
Received == Len(requests') = Len(requests) + 1

\* C22: a 'lint' message received while the worker is disabled is answered
\* at once with no lints, starts no AI proofread and leaves the stored
\* lints and the badge of every tab as they were; a 'lint' message received
\* while the worker is enabled (again) is answered with the lints of a pass
\* on its text.
C22_DisabledAnswersEmpty ==
  /\ [](\A id \in 1..Len(requests) :
          /\ requests[id].outcome = "disabled" =>
               /\ requests[id].status = "replied"
               /\ requests[id].lints = <<>>
               /\ \A req \in aiPending : req.id # id
               /\ \A a \in aiLog : a.id # id
               /\ lastPass[requests[id].tab] # id
          /\ requests[id].outcome = "linted" =>
               requests[id].lints =
                 FastPass(RULES, requests[id].text, requests[id].engine).allLints)
  /\ [][Received =>
          IF isEnabled
          THEN requests'[Len(requests')].status = "inflight"
          ELSE /\ requests'[Len(requests')].outcome = "disabled"
               /\ UNCHANGED <<tabLints, badge, lastPass, aiPending, aiLog, tabMessages>>]_vars

\* a message was answered with no lints while the worker was disabled, and
\* after set-enabled with enabled=true a message with the same text was
\* answered with the lints of a pass
C22_Witness ==
  /\ isEnabled
  /\ Len(requests) = 2
  /\ requests[1].outcome = "disabled"
  /\ requests[2].outcome = "linted"
  /\ requests[2].text = requests[1].text
  /\ requests[2].lints # <<>>
  /\ requests[1].tab \notin DOMAIN tabLints \/ lastPass[requests[1].tab] = 2

\* the tags of the generated elements that are no inline markup: blocks and
\* the custom element
ContainerTags == {"DIV", "P", "SHREDDIT-COMPOSER"}

\* The nodes below a list of siblings in document order: the text nodes
\* that hold text ("text"), the line breaks ("br") and the start tags of the
\* blocks and custom elements ("open"); the extension's own container is
\* left out.
RECURSIVE Tokens(_, _)
Tokens(nodes, k) ==
  IF k > Len(nodes) THEN <<>>
  ELSE LET n == nodes[k]
           own == IF n.tag = "#text"
                  THEN IF n.text = <<>> THEN <<>> ELSE <<[t |-> "text", id |-> n.id]>>
                  ELSE IF n.cls = CONTAINER_CLASS THEN <<>>
                  ELSE IF n.tag = "BR" THEN <<[t |-> "br", id |-> n.id]>>
                  ELSE (IF n.tag \in ContainerTags THEN <<[t |-> "open", id |-> n.id]>> ELSE <<>>)
                         \o Tokens(n.children, 1)
       IN  own \o Tokens(nodes, k + 1)

\* the entry of a text node in the node map
EntryOf(nodeMap, id) ==
  nodeMap[CHOOSE i \in 1..Len(nodeMap) : ~nodeMap[i].synthetic /\ nodeMap[i].node = id]

\* the text map has been built for the element
Flattened == st.nodeMap = buildTextMap(doc.dom).nodeMap /\ st.text = buildTextMap(doc.dom).text

\* C23: when an element that is not on the inline list starts between two
\* text nodes that follow each other in the document, the flattened text
\* has one newline or more between the two texts, all of them synthetic, and
\* exactly one when no line break lies between them: the texts are never
\* joined.
C23_BlockBoundaryInserted ==
  (kind = "ce" /\ Flattened) =>
    LET tokens == Tokens(doc.dom, 1)
    IN  \A i, j \in 1..Len(tokens) :
          (/\ i < j
           /\ tokens[i].t = "text"
           /\ tokens[j].t = "text"
           /\ \A m \in (i + 1)..(j - 1) : tokens[m].t # "text"
           /\ \E m \in (i + 1)..(j - 1) : tokens[m].t = "open")
            => LET from == EntryOf(st.nodeMap, tokens[i].id).end
                   to == EntryOf(st.nodeMap, tokens[j].id).start
               IN  /\ to > from
                   /\ \A p \in (from + 1)..to : st.text[p] = "\n"
                   /\ \A e \in 1..Len(st.nodeMap) :
                        (st.nodeMap[e].start >= from /\ st.nodeMap[e].end <= to)
                          => st.nodeMap[e].synthetic
                   /\ (\A m \in (i + 1)..(j - 1) : tokens[m].t # "br") => to = from + 1

\* text, a custom element with text of its own, and text again: the map is
\* built and holds a synthetic newline in front of the custom element's text
C23_Witness ==
  /\ kind = "ce"
  /\ Len(doc.dom) = 4
  /\ doc.dom[1].tag = "#text"
  /\ doc.dom[2].tag = "SHREDDIT-COMPOSER"
  /\ doc.dom[3].tag = "#text"
  /\ doc.dom[3].text = T_ab
  /\ st.text = <<"a", "b", "\n", "a", "b", "a", "b">>

\* C27: the entries of the node map tile the flattened text: the first
\* starts at 0, each starts where the one before it ends, each has
\* start < end, the last ends at the length of the text; a real entry covers
\* the data of its text node, no text node has two entries, and a synthetic
\* entry has length 1 and stands for a newline of the text.
C27_SegmentsTileText ==
  (kind = "ce" /\ Flattened) =>
    LET nodeMap == st.nodeMap
        text == st.text
    IN  /\ nodeMap = <<>> => text = <<>>
        /\ nodeMap # <<>> => nodeMap[1].start = 0 /\ nodeMap[Len(nodeMap)].end = Len(text)
        /\ \A i \in 1..Len(nodeMap) :
             /\ nodeMap[i].start < nodeMap[i].end
             /\ i > 1 => nodeMap[i].start = nodeMap[i - 1].end
             /\ IF nodeMap[i].synthetic
                THEN /\ nodeMap[i].end = nodeMap[i].start + 1
                     /\ nodeMap[i].char = "\n"
                     /\ text[nodeMap[i].end] = "\n"
                ELSE /\ HasTextNode(doc.dom, nodeMap[i].node)
                     /\ substring(text, nodeMap[i].start, nodeMap[i].end)
                          = textContent(doc.dom, nodeMap[i].node)
        /\ \A i, j \in 1..Len(nodeMap) :
             (i < j /\ ~nodeMap[i].synthetic /\ ~nodeMap[j].synthetic)
               => /\ nodeMap[i].node # nodeMap[j].node
                  /\ nodeMap[i].end <= nodeMap[j].start

\* the map of an element with a line break inside a block between two
\* texts: two real entries with two synthetic entries between them
C27_Witness ==
  /\ kind = "ce"
  /\ Len(st.nodeMap) = 4
  /\ ~st.nodeMap[1].synthetic
  /\ st.nodeMap[2].synthetic
  /\ st.nodeMap[3].synthetic
  /\ ~st.nodeMap[4].synthetic
  /\ st.text = <<"a", "b", "\n", "\n", "a", "b">>

\* the entries of a node map that hold an offset: start <= offset < end
Holding(nodeMap, offset) ==
  {i \in 1..Len(nodeMap) : nodeMap[i].start <= offset /\ offset < nodeMap[i].end}

\* the first real entry of a node map from index i on, NullEntry if none
RealFrom(nodeMap, i) ==
  LET real == {j \in i..Len(nodeMap) : ~nodeMap[j].synthetic}
  IN  IF real = {} THEN NullEntry
      ELSE nodeMap[CHOOSE j \in real : \A m \in real : j <= m]

\* C28: findNodeAtOffset returns no synthetic entry; for an offset inside
\* a real entry it returns that entry, for an offset on a synthetic newline
\* the first real entry after it, and null only when no real entry holds or
\* follows the offset.
C28_FindNodeAtOffset ==
  (kind = "ce" /\ Flattened) =>
    \A offset \in 0..(Len(st.text) + 1) :
      LET found == findNodeAtOffset(st.nodeMap, offset)
          holding == Holding(st.nodeMap, offset)
      IN  /\ found # NullEntry => ~found.synthetic
          /\ \A i \in holding : found = RealFrom(st.nodeMap, i)
          /\ found = NullEntry =>
               \A i \in 1..Len(st.nodeMap) :
                 st.nodeMap[i].synthetic \/ st.nodeMap[i].end < offset

\* ------------------------------------------------------------------------
\* Spans of the lints of the pattern rules and the clause detector
\* ------------------------------------------------------------------------

FromRules(lint) == lint.source \in {"pattern", "clause"}

\* the spans runCustomRules and detectRunOnClauses pushed onto the occupied
\* list of a request, which was seeded with the spans of the engine's lints
Pushed(r) == SubSeq(r.occupied, Len(r.engine) + 1, Len(r.occupied))

RECURSIVE GlobalMatches(_, _, _)
GlobalMatches(rule, s, lastIndex) ==
  LET rest(m) == IF ~m.ok \/ m.end = m.index THEN <<>>
                 ELSE <<m>> \o GlobalMatches(rule, s, m.end)
  IN  CHOOSE r \in {rest(m) : m \in {Exec(rule, s, lastIndex)}} : TRUE

\* the lint a match of a rule stands for
LintOfMatch(rule, s, m) ==
  [span |-> RuleSpan(rule, s, m),
   problemText |-> SubSeq(s, RuleSpan(rule, s, m).start + 1, RuleSpan(rule, s, m).end),
   suggestions |-> Suggest(rule, s, m),
   lintKind |-> RuleKind(rule),
   source |-> "pattern"]

\* for a rule table and a text, the lints of the matches of every rule
MatchLints(rules, s) ==
  [k \in 1..Len(rules) |->
     [j \in 1..Len(GlobalMatches(rules[k], s, 0)) |->
        LintOfMatch(rules[k], s, GlobalMatches(rules[k], s, 0)[j])]]

MatchLintsTable == [rules \in {RULES, RULES_EDITED} |-> [s \in Texts |-> MatchLints(rules, s)]]

InReply(r, lint) == \E i \in 1..Len(r.lints) : r.lints[i] = lint

w_heDoesnt == <<"h", "e", " ", "d", "o", "e", "s", "n", "'", "t">>

\* C25: in every reply of a pass, a match of an enabled rule has its lint,
\* with the suggestions of the rule, in the reply exactly when its span
\* overlaps no lint of the engine and no lint of an earlier match (of an
\* earlier rule of the table, or of the same rule further left) that is in
\* the reply; this holds for every match of the scan, not the first alone.
\* No match of a rule with enabled: false has a lint in the reply.  The
\* reply for "he don't like it" without engine lints holds a lint over
\* "he don't" that suggests "he doesn't".
C25_EveryMatchOfEnabledRule ==
  \A id \in 1..Len(requests) :
    requests[id].outcome = "linted" =>
      LET r == requests[id]
          matches == IF ruleTable \in {RULES, RULES_EDITED}
                     THEN MatchLintsTable[ruleTable][r.text]
                     ELSE MatchLints(ruleTable, r.text)
          lintOf(k, j) == matches[k][j]
          earlier(k, j) == {<<a, b>> \in (1..k) \X (1..Len(r.text)) :
                              /\ b <= Len(matches[a])
                              /\ a < k \/ b < j
                              /\ ruleTable[a].enabled # FALSE}
      IN  /\ \A k \in 1..Len(ruleTable) : \A j \in 1..Len(matches[k]) :
                IF ruleTable[k].enabled = FALSE
                THEN ~InReply(r, lintOf(k, j))
                ELSE InReply(r, lintOf(k, j)) <=>
                       /\ \A i \in 1..Len(r.engine) : ~SpansOverlap(r.engine[i], lintOf(k, j))
                       /\ \A e \in earlier(k, j) :
                             InReply(r, lintOf(e[1], e[2]))
                               => ~SpansOverlap(lintOf(e[1], e[2]), lintOf(k, j))
          /\ (r.text = T_heDont /\ r.engine = <<>>) =>
                \E i \in 1..Len(r.lints) :
                   /\ r.lints[i].span = [start |-> 0, end |-> 8]
                   /\ r.lints[i].problemText = SubSeq(T_heDont, 1, 8)
                   /\ r.lints[i].suggestions = <<w_heDoesnt>>

\* Two replies: one holds the lints of both matches of one rule, the other
\* is the reply for "he don't like it" without engine lints, whose last
\* word the disabled rule matches.
C25_Witness ==
  /\ \E id \in 1..Len(requests) :
        /\ requests[id].outcome = "linted"
        /\ requests[id].text = T_twice
        /\ Len(GlobalMatches(RuleHeDont, T_twice, 0)) = 2
        /\ requests[id].engine = <<>>
        /\ Len(requests[id].lints) = 2
        /\ requests[id].lints[2].span = [start |-> 8, end |-> 15]
  /\ \E id \in 1..Len(requests) :
        /\ requests[id].outcome = "linted"
        /\ requests[id].text = T_heDont
        /\ requests[id].engine = <<>>
        /\ GlobalMatches(RuleMissingPunctuation, T_heDont, 0) # <<>>

\* ------------------------------------------------------------------------
\* The range a fix of the batch replaces
\* ------------------------------------------------------------------------

\* applyAllFixes acts on a contenteditable element whose lints are current
BatchOfCurrentLints ==
  /\ nFixes' # nFixes
  /\ lastFix'.kind = "all"
  /\ kind = "ce"
  /\ LintsAreCurrent
  /\ ceFixes(doc, st) # <<>>

\* C26: the fix the batch applies first, before which no other fix has
\* changed the text, replaces the range that starts at the recorded start of
\* its lint, wherever else its problem text occurs.
C26_FixReplacesRecordedSpan ==
  [][BatchOfCurrentLints =>
       locateProblem(PageText, ceFixes(doc, st)[1]) = ceFixes(doc, st)[1].originalStart]_vars

\* ------------------------------------------------------------------------
\* The suggestions of the clause detector
\* ------------------------------------------------------------------------

InWords(words, w) == \E i \in 1..Len(words) : toLowerCase(words[i]) = toLowerCase(w)

\* the three words of a junction
WordsOf(lint) == SplitWS(lint.problemText, 0, <<>>)

Capitalised(w) == <<UpperChar(w[1])>> \o SubSeq(w, 2, Len(w))

T_dayFixed == <<"a", " ", "d", "a", "y", ",", " ", "k", "e", "e", "p", " ", "a", "n", " ", "e", "y", "e">>

\* C29: a lint of the clause detector over word, subject, verb suggests
\* "word, subject verb", "word; subject verb" and "word. Subject verb", in
\* that order and nothing else; one over word, imperative verb, object
\* suggests "word, verb object" and "word. Verb object" and nothing else, so
\* no semicolon.  The reply for "a day keep an eye" flags "day keep an", and
\* its first suggestion put in place of the span gives "a day, keep an eye".
C29_JunctionSuggestions ==
  \A id \in 1..Len(requests) :
    LET r == requests[id]
    IN  /\ \A i \in 1..Len(r.lints) :
             r.lints[i].source = "clause" =>
               LET w == WordsOf(r.lints[i])
               IN  /\ Len(w) = 3
                   /\ IF InWords(subjects, w[2])
                      THEN r.lints[i].suggestions =
                             << w[1] \o <<",", " ">> \o w[2] \o <<" ">> \o w[3],
                                w[1] \o <<";", " ">> \o w[2] \o <<" ">> \o w[3],
                                w[1] \o <<".", " ">> \o Capitalised(w[2]) \o <<" ">> \o w[3] >>
                      ELSE /\ InWords(imperativeVerbs, w[2])
                           /\ r.lints[i].suggestions =
                             << w[1] \o <<",", " ">> \o w[2] \o <<" ">> \o w[3],
                                w[1] \o <<".", " ">> \o Capitalised(w[2]) \o <<" ">> \o w[3] >>
                           /\ \A j \in 1..Len(r.lints[i].suggestions) :
                                 ~includes(r.lints[i].suggestions[j], <<";">>)
        /\ (r.outcome = "linted" /\ r.text = T_day) =>
              \E i \in 1..Len(r.lints) :
                 /\ r.lints[i].source = "clause"
                 /\ r.lints[i].span = [start |-> 2, end |-> 13]
                 /\ r.lints[i].problemText = SubSeq(T_day, 3, 13)
                 /\ Replaced(r.text, r.lints[i].span, r.lints[i].suggestions[1]) = T_dayFixed

\* Two replies: one with the lint of a junction of two independent clauses,
\* one with the lint of the imperative scan for "a day keep an eye".
C29_Witness ==
  /\ \E id \in 1..Len(requests) :
        /\ requests[id].outcome = "linted"
        /\ \E i \in 1..Len(requests[id].lints) :
              /\ requests[id].lints[i].source = "clause"
              /\ InWords(subjects, WordsOf(requests[id].lints[i])[2])
              /\ Len(requests[id].lints[i].suggestions) = 3
  /\ \E id \in 1..Len(requests) :
        /\ requests[id].outcome = "linted"
        /\ requests[id].text = T_day
        /\ \E i \in 1..Len(requests[id].lints) :
              /\ requests[id].lints[i].source = "clause"
              /\ InWords(imperativeVerbs, WordsOf(requests[id].lints[i])[2])
              /\ Len(requests[id].lints[i].suggestions) = 2

\* ------------------------------------------------------------------------
\* The filter of split-word suggestions
\* ------------------------------------------------------------------------

HasSpace(w) == \E i \in 1..Len(w) : w[i] = " "

\* the lengths of the parts of a suggestion between its runs of white space
PartLengths(sugText) ==
  [i \in 1..Len(SplitWS(sugText, 0, <<>>)) |-> Len(SplitWS(sugText, 0, <<>>)[i])]

RECURSIVE Sum(_)
Sum(ns) == IF ns = <<>> THEN 0 ELSE Head(ns) + Sum(Tail(ns))

\* a suggestion the filter is to keep for a problem text of the given length
Plausible(sugText, problemLength) ==
  HasSpace(sugText) =>
    /\ \A i \in 1..Len(PartLengths(sugText)) : PartLengths(sugText)[i] >= 3
    /\ \/ Sum(PartLengths(sugText)) - problemLength > 1
       \/ problemLength - Sum(PartLengths(sugText)) > 1

\* an engine lint the filter applies to: a problem text that is not empty,
\* holds no space and is no key of the misspelling dictionary
Filtered(lint) ==
  /\ lint.problemText # <<>>
  /\ ~HasSpace(lint.problemText)
  /\ toLowerCase(lint.problemText) \notin COMMON_MISSPELLINGS_KEYS

\* the lint of a reply that stands for a lint of the engine
Returned(r, lint) ==
  CHOOSE l \in {r.lints[i] : i \in 1..Len(r.lints)} :
    l.source = "engine" /\ l.span = lint.span

\* C30: for an engine lint whose problem text holds no space and is no known
\* misspelling, the reply keeps, in their order, exactly the suggestions that
\* hold no space or whose parts all have three characters or more and
\* together differ in length from the problem text by more than one.  (When
\* none is left, none of the engine's suggestions is in the reply.)
C30_SplitSuggestionFilter ==
  \A id \in 1..Len(requests) :
    requests[id].outcome = "linted" =>
      \A i \in 1..Len(requests[id].engine) :
        LET lint == requests[id].engine[i]
            kept == SelectSeq(lint.suggestions,
                              LAMBDA sg : Plausible(sg, Len(lint.problemText)))
            returned == Returned(requests[id], lint).suggestions
        IN  Filtered(lint) =>
              IF kept # <<>> THEN returned = kept
              ELSE \A j \in 1..Len(returned), k \in 1..Len(lint.suggestions) :
                      returned[j] # lint.suggestions[k]

\* A reply for an engine lint over "don't" with four suggestions: "do not"
\* (a part of two characters) and "don not" (six characters against five)
\* are gone, "doesn't" (no space) and "does not" (seven against five) are
\* left in that order.
C30_Witness ==
  \E id \in 1..Len(requests) :
    /\ requests[id].outcome = "linted"
    /\ requests[id].text = T_stop
    /\ \E i \in 1..Len(requests[id].engine) :
          /\ requests[id].engine[i].suggestions = <<sg_doNot, sg_doesnt, sg_donNot, sg_doesNot>>
          /\ Filtered(requests[id].engine[i])
          /\ Returned(requests[id], requests[id].engine[i]).suggestions = <<sg_doesnt, sg_doesNot>>

\* ------------------------------------------------------------------------
\* The lint store after a tab was closed
\* ------------------------------------------------------------------------

\* a requestAIProofread call of the tab ends in this step
AIResultFor(t) == \E req \in aiPending : req.tabId = t /\ req \notin aiPending'

\* C32: an AI proofread result does not re-create the entry of its tab in
\* the lint store.  (The pass that started the call stored an entry for the
\* tab, and only chrome.tabs.onRemoved deletes one: the entry is absent when
\* the result arrives exactly when the tab was closed in between.)
C32_ClosedTabStaysEmpty ==
  [][\A t \in Tabs :
       (AIResultFor(t) /\ t \notin DOMAIN tabLints) => t \notin DOMAIN tabLints']_vars

\* ------------------------------------------------------------------------
\* Text behind the end of a block
\* ------------------------------------------------------------------------

\* The nodes below a list of siblings in document order, as Tokens, with
\* the end tags of the blocks and custom elements ("close") as well.
RECURSIVE TagTokens(_, _)
TagTokens(nodes, k) ==
  IF k > Len(nodes) THEN <<>>
  ELSE LET n == nodes[k]
           own == IF n.tag = "#text"
                  THEN IF n.text = <<>> THEN <<>> ELSE <<[t |-> "text", id |-> n.id]>>
                  ELSE IF n.cls = CONTAINER_CLASS THEN <<>>
                  ELSE IF n.tag = "BR" THEN <<[t |-> "br", id |-> n.id]>>
                  ELSE IF n.tag \in ContainerTags
                       THEN <<[t |-> "open", id |-> n.id]>> \o TagTokens(n.children, 1)
                              \o <<[t |-> "close", id |-> n.id]>>
                       ELSE TagTokens(n.children, 1)
       IN  own \o TagTokens(nodes, k + 1)

\* C36: when an element that is not on the inline list ends between two
\* text nodes that follow each other in the document, the flattened text
\* holds a synthetic newline between the two texts: the text of the block
\* and the text behind the block are not joined.
C36_TextAfterBlockSeparated ==
  (kind = "ce" /\ Flattened) =>
    LET tokens == TagTokens(doc.dom, 1)
    IN  \A i, j \in 1..Len(tokens) :
          (/\ i < j
           /\ tokens[i].t = "text"
           /\ tokens[j].t = "text"
           /\ \A m \in (i + 1)..(j - 1) : tokens[m].t # "text"
           /\ \E m \in (i + 1)..(j - 1) : tokens[m].t = "close")
            => LET from == EntryOf(st.nodeMap, tokens[i].id).end
                   to == EntryOf(st.nodeMap, tokens[j].id).start
               IN  /\ to > from
                   /\ \E e \in 1..Len(st.nodeMap) :
                        /\ st.nodeMap[e].synthetic
                        /\ st.nodeMap[e].start >= from
                        /\ st.nodeMap[e].end <= to

\* ------------------------------------------------------------------------
\* Termination of the match loops
\* ------------------------------------------------------------------------

\* C34: no pass of the worker stays in a match loop: every loop of
\* runCustomRules and detectRunOnClauses ends, also when an entry of the
\* rule table has an expression that matches the empty string.
C34_EveryPassTerminates ==
  \A id \in 1..Len(requests) : requests[id].status # "hung"

====
